---------------------------- MODULE Spec2Model ----------------------------
(***************************************************************************)
(* A model of the ml-rhythm backend: the streaming onset detector, the     *)
(* metronome detector (periodicity search, click tracking, least-squares   *)
(* refit), the grid aligner, the pipeline orchestrator and the websocket   *)
(* session handler.                                                        *)
(*                                                                         *)
(* Time.  Onset times are integers counted in ticks of 1/3 ms, so that     *)
(* the periods of 90, 100 and 120 BPM and the millisecond constants of     *)
(* the code are all whole numbers.  Quantities the code derives by         *)
(* division (period, reference, bpm, grid interval, offsets) are exact     *)
(* rationals <<numerator, denominator>>: float64 is idealised as the       *)
(* reals.  Deviations are kept in tenths of a millisecond, the unit the    *)
(* code rounds them to.                                                    *)
(*                                                                         *)
(* Style.  A value that a Python function binds to a local and then uses   *)
(* several times is passed on as the parameter of a helper operator        *)
(* (TLC evaluates a parameter once).                                       *)
(***************************************************************************)
EXTENDS Integers, Sequences, FiniteSets, TLC

VARIABLES
    pipeline,   \* the AudioPipeline object (with its MetronomeDetector), or NoPipeline
    outbox,     \* every event returned / frame sent to the peer so far, in order
    session,    \* the locals of audio_ws_handler and where its loop stands
    feed,       \* the environment: what has been fed and whether the run goes on
    detectors   \* RealtimeOnsetDetector objects and the sample stream they read

vars == <<pipeline, outbox, session, feed, detectors>>

(***************************************************************************)
(* Arithmetic                                                              *)
(***************************************************************************)
TicksPerSecond == 3 * 1000
TicksPerMs == TicksPerSecond \div 1000

None == <<>>

Abs(x) == IF x < 0 THEN -x ELSE x
Max(a, b) == IF a >= b THEN a ELSE b
Min(a, b) == IF a <= b THEN a ELSE b

RECURSIVE GCD(_, _)
GCD(a, b) == IF b = 0 THEN a ELSE GCD(b, a % b)

ReduceBy(n, d, g) ==
    IF d < 0 THEN <<(-n) \div g, (-d) \div g>> ELSE <<n \div g, d \div g>>

\* The rational n/d in lowest terms with a positive denominator.
Rat(n, d) == ReduceBy(n, d, GCD(Abs(n), Abs(d)))

RInt(n) == <<n, 1>>

AddOver(a, b, g) ==
    Rat(a[1] * (b[2] \div g) + b[1] * (a[2] \div g), (a[2] \div g) * b[2])

RAdd(a, b) == AddOver(a, b, GCD(a[2], b[2]))

RSub(a, b) == RAdd(a, <<-b[1], b[2]>>)

\* Products cancel across the operands before multiplying.
MulOver(a, b, g1, g2) ==
    <<(a[1] \div g1) * (b[1] \div g2), (a[2] \div g2) * (b[2] \div g1)>>

RMul(a, b) == MulOver(a, b, GCD(Abs(a[1]), b[2]), GCD(Abs(b[1]), a[2]))

RInv(a) == IF a[1] < 0 THEN <<-a[2], -a[1]>> ELSE <<a[2], a[1]>>

RDiv(a, b) == RMul(a, RInv(b))

RAbs(a) == <<Abs(a[1]), a[2]>>

RLe(a, b) == a[1] * b[2] <= b[1] * a[2]
RLt(a, b) == a[1] * b[2] < b[1] * a[2]

RMin(a, b) == IF RLe(a, b) THEN a ELSE b

RoundFrom(q, r, d) ==
    IF 2 * r < d THEN q
    ELSE IF 2 * r > d THEN q + 1
    ELSE IF q % 2 = 0 THEN q ELSE q + 1

\* Python's round(x): to the nearest integer, a tie to the even one.
PyRound(a) == RoundFrom(a[1] \div a[2], a[1] % a[2], a[2])

RECURSIVE SumSeq(_)
SumSeq(s) == IF Len(s) = 0 THEN 0 ELSE Head(s) + SumSeq(Tail(s))

RECURSIVE SumProd(_, _)
SumProd(a, b) ==
    IF Len(a) = 0 THEN 0 ELSE Head(a) * Head(b) + SumProd(Tail(a), Tail(b))

RECURSIVE Insert(_, _)
Insert(x, s) ==
    IF Len(s) = 0 THEN <<x>>
    ELSE IF x < Head(s) THEN <<x>> \o s
    ELSE <<Head(s)>> \o Insert(x, Tail(s))

\* Python's sorted() on a list of numbers.
RECURSIVE Sorted(_)
Sorted(s) == IF Len(s) = 0 THEN <<>> ELSE Insert(Head(s), Sorted(Tail(s)))

Last(s) == s[Len(s)]
Front(s) == SubSeq(s, 1, Len(s) - 1)

IsSorted(s) == \A i \in 1..(Len(s) - 1) : s[i] <= s[i + 1]
StrictlyIncreasing(s) == \A i \in 1..(Len(s) - 1) : s[i] < s[i + 1]

(***************************************************************************)
(* MetronomeDetector                                                       *)
(***************************************************************************)
MIN_PERIODIC_ONSETS == 4
TOLERANCE_S == 25 * TicksPerMs
MIN_PERIOD_S == 250 * TicksPerMs
MAX_PERIOD_S == 1500 * TicksPerMs
WINDOW_S == 6 * TicksPerSecond
REFIT_INTERVAL == 4
DIVISORS == <<1, 2, 3, 4>>
LOCK_BREAK_COUNT == 6

\* MetronomeDetector.__init__
NewDetector ==
    [ onset_times |-> <<>>,
      locked |-> FALSE,
      bpm |-> None,
      period |-> None,
      reference_time |-> None,
      click_times |-> <<>>,
      click_indices |-> <<>>,
      clicks_since_refit |-> 0,
      best_periodic_count |-> 0 ]

\* self.MIN_PERIOD_S <= period <= self.MAX_PERIOD_S
PeriodInRange(p) == RLe(RInt(MIN_PERIOD_S), p) /\ RLe(p, RInt(MAX_PERIOD_S))

\* The least-squares line through (index, time) from its sums: <<period,
\* reference>>.  With every index equal (D = 0) the system has rank 1 and lstsq
\* returns the solution of least norm.
SolveNormal(n, Sn, St, Snn, Snt, D, c) ==
    IF D # 0
    THEN <<Rat(n * Snt - Sn * St, D), Rat(Snn * St - Sn * Snt, D)>>
    ELSE <<Rat(c * St, n * (c * c + 1)), Rat(St, n * (c * c + 1))>>

LstsqSums(n, Sn, St, Snn, Snt, c) ==
    SolveNormal(n, Sn, St, Snn, Snt, n * Snn - Sn * Sn, c)

\* np.linalg.lstsq of time = reference + index * period
Lstsq(indices, times) ==
    LstsqSums(Len(indices), SumSeq(indices), SumSeq(times),
              SumProd(indices, indices), SumProd(indices, times), indices[1])

\* 60.0 / period, in beats per minute (period is in ticks)
BpmOf(p) == RDiv(RInt(60 * TicksPerSecond), p)

\* A refit that takes the fitted period whatever its value
AcceptFit_Unchecked(md, fit) ==
    [md EXCEPT !.period = fit[1],
               !.reference_time = fit[2],
               !.bpm = BpmOf(fit[1])]

\* The acceptance test of _refit and its three assignments
AcceptFit(md, fit) ==
    IF PeriodInRange(fit[1])
    THEN [md EXCEPT !.period = fit[1],
                    !.reference_time = fit[2],
                    !.bpm = BpmOf(fit[1])]
    ELSE md

\* MetronomeDetector._refit
refit(md) ==
    IF Len(md.click_times) < 2 THEN md
    ELSE AcceptFit(md, Lstsq(md.click_indices, md.click_times))

\* round((t - base) / approx_period)
IndexOf(t, base, approx_period) == PyRound(RDiv(RInt(t - base), approx_period))

\* MetronomeDetector._compute_click_indices
compute_click_indices(md, approx_period) ==
    IF Len(md.click_times) = 0 THEN md
    ELSE [md EXCEPT !.click_indices =
             [i \in 1..Len(md.click_times) |->
                 IndexOf(md.click_times[i], md.click_times[1], approx_period)]]

\* abs(offset - round(offset)) * period
GridError(offset, period) ==
    RMul(RAbs(RSub(offset, RInt(PyRound(offset)))), period)

\* The test of one onset t against the candidate grid anchored at t_i
AlignsWith(t, ti, period) ==
    RLe(GridError(RDiv(RInt(t - ti), period), period), RInt(TOLERANCE_S))

AlignedSet(times, i, period) ==
    SelectSeq(times, LAMBDA t : AlignsWith(t, times[i], period))

\* A comparison that lets a later candidate with as many aligned onsets win
BetterOf_LastWins(best, aligned, period) ==
    IF Len(aligned) >= Len(best.aligned)
    THEN [aligned |-> aligned, period |-> period]
    ELSE best

\* `if len(aligned) > len(best_aligned)`: the first candidate found keeps a tie
BetterOf(best, aligned, period) ==
    IF Len(aligned) > Len(best.aligned)
    THEN [aligned |-> aligned, period |-> period]
    ELSE best

\* One candidate period of the search
TryCandidate(times, i, period, best) ==
    IF ~PeriodInRange(period) THEN best
    ELSE BetterOf(best, AlignedSet(times, i, period), period)

\* The loops `for j ... for divisor ...` for one i; k counts the (j, divisor)
\* pairs in loop order.  best is [aligned, period].
RECURSIVE ScanPairs(_, _, _, _)
ScanPairs(times, i, k, best) ==
    IF k >= (Len(times) - i) * Len(DIVISORS) THEN best
    ELSE ScanPairs(times, i, k + 1,
            TryCandidate(times, i,
                Rat(times[i + 1 + (k \div Len(DIVISORS))] - times[i],
                    DIVISORS[1 + (k % Len(DIVISORS))]),
                best))

\* The early break of the outer loop
RECURSIVE ScanAnchors(_, _, _)
BreakOrGoOn(times, i, b) ==
    IF Len(b.aligned) >= LOCK_BREAK_COUNT THEN b
    ELSE ScanAnchors(times, i + 1, b)

\* The outer loop `for i`
ScanAnchors(times, i, best) ==
    IF i > Len(times) THEN best
    ELSE BreakOrGoOn(times, i, ScanPairs(times, i, 0, best))

BestPeriodic(times) == ScanAnchors(times, 1, [aligned |-> <<>>, period |-> None])

\* The end of _try_lock once locked.  The LOCKED message formats self.bpm,
\* self.period and self.reference_time as floats: it raises TypeError when
\* the initial refit was rejected and they are still None.
Locked(md) ==
    [ md |-> [md EXCEPT !.locked = TRUE], ret |-> TRUE,
      raised |-> (md.bpm = None \/ md.period = None \/ md.reference_time = None) ]

\* _try_lock after the search
LockWith(md, best) ==
    IF Len(best.aligned) >= MIN_PERIODIC_ONSETS /\ best.period # None
    THEN Locked(refit(compute_click_indices(
             [md EXCEPT !.best_periodic_count = Len(best.aligned),
                        !.click_times = Sorted(best.aligned)],
             best.period)))
    ELSE [ md |-> [md EXCEPT !.best_periodic_count = Len(best.aligned)],
           ret |-> FALSE, raised |-> FALSE ]

\* _try_lock on the onsets of the window
SearchWindow(md, times) ==
    IF Len(times) < MIN_PERIODIC_ONSETS
    THEN [md |-> md, ret |-> FALSE, raised |-> FALSE]
    ELSE LockWith(md, BestPeriodic(times))

\* [t for t in self.onset_times if t >= cutoff]
WindowOf(onset_times, cutoff) == SelectSeq(onset_times, LAMBDA t : t >= cutoff)

\* MetronomeDetector._try_lock: [md, ret, raised]
try_lock(md) ==
    SearchWindow(md, WindowOf(md.onset_times, Last(md.onset_times) - WINDOW_S))

\* add_onset after the append
AfterAppend(md) ==
    IF md.locked THEN [md |-> md, ret |-> FALSE, raised |-> FALSE]
    ELSE IF Len(md.onset_times) < MIN_PERIODIC_ONSETS
    THEN [md |-> md, ret |-> FALSE, raised |-> FALSE]
    ELSE try_lock(md)

\* MetronomeDetector.add_onset: [md, ret, raised]
add_onset(md, time_seconds) ==
    AfterAppend([md EXCEPT !.onset_times = Append(@, time_seconds)])

\* A tolerance of a quarter period with no 50 ms cap
TrackToleranceMs_NoCap(period) ==
    RMul(RDiv(period, RInt(TicksPerSecond)), RInt(250))

\* min(self.period * 250, 50.0), in ms; period is in ticks
TrackToleranceMs(period) ==
    RMin(RMul(RDiv(period, RInt(TicksPerSecond)), RInt(250)), RInt(50))

\* (onset_time - self.reference_time) / self.period
BeatOffset(md, onset_time) ==
    RDiv(RSub(RInt(onset_time), md.reference_time), md.period)

\* An error left in seconds, compared with a tolerance in ms
TrackErrorMs_Seconds(md, onset_time) ==
    RDiv(GridError(BeatOffset(md, onset_time), md.period), RInt(TicksPerSecond))

\* abs(offset - nearest_int) * self.period * 1000.0, in ms
TrackErrorMs(md, onset_time) ==
    RDiv(GridError(BeatOffset(md, onset_time), md.period), RInt(TicksPerMs))

\* A gap test that wants more than a whole period since the last click
TooCloseToLastClick_WholePeriod(md, onset_time) ==
    /\ Len(md.click_times) > 0
    /\ RLe(RInt(onset_time - Last(md.click_times)), md.period)

\* The gap test against the last recorded click
TooCloseToLastClick(md, onset_time) ==
    /\ Len(md.click_times) > 0
    /\ RLt(RInt(onset_time - Last(md.click_times)), RMul(md.period, <<1, 2>>))

\* The refit every REFIT_INTERVAL accepted clicks
RefitWhenDue(md) ==
    IF md.clicks_since_refit >= REFIT_INTERVAL
    THEN refit([md EXCEPT !.clicks_since_refit = 0])
    ELSE md

\* The recording of an accepted click
RecordClick(md, onset_time, nearest_int) ==
    [ md |-> RefitWhenDue([md EXCEPT !.click_times = Append(@, onset_time),
                                     !.click_indices = Append(@, nearest_int),
                                     !.clicks_since_refit = @ + 1]),
      ret |-> TRUE ]

\* MetronomeDetector.track_onset: [md, ret]
track_onset(md, onset_time) ==
    IF ~md.locked \/ md.period = None \/ md.reference_time = None
    THEN [md |-> md, ret |-> FALSE]
    ELSE IF ~RLe(TrackErrorMs(md, onset_time), TrackToleranceMs(md.period))
    THEN [md |-> md, ret |-> FALSE]
    ELSE IF TooCloseToLastClick(md, onset_time)
    THEN [md |-> md, ret |-> FALSE]
    ELSE RecordClick(md, onset_time, PyRound(BeatOffset(md, onset_time)))

\* MetronomeDetector.total_onsets
total_onsets(md) == Len(md.onset_times)

\* A click count that reports the best periodic count after the lock as well
click_count_PeriodicOnly(md) == md.best_periodic_count

\* MetronomeDetector.click_count
click_count(md) == IF md.locked THEN Len(md.click_times) ELSE md.best_periodic_count

\* MetronomeDetector.grid_updated
grid_updated(md) ==
    md.clicks_since_refit = 0 /\ Len(md.click_times) > MIN_PERIODIC_ONSETS

(***************************************************************************)
(* GridConfig                                                              *)
(***************************************************************************)
\* GridConfig.__init__
GridConfig(bpm, grid_resolution, reference_time) ==
    [ bpm |-> bpm, grid_resolution |-> grid_resolution,
      reference_time |-> reference_time ]

\* GridConfig.beat_duration: 60.0 / bpm, in ticks
beat_duration(gc) == RDiv(RInt(60 * TicksPerSecond), gc.bpm)

\* A grid of quarter notes whatever the resolution
grid_interval_Quarter(gc) == beat_duration(gc)

\* GridConfig.grid_interval
grid_interval(gc) ==
    IF gc.grid_resolution = "16th"
    THEN RDiv(beat_duration(gc), RInt(4))
    ELSE RDiv(beat_duration(gc), RInt(2))

\* subdivisions_per_beat
SubdivisionsPerBeat(gc) == IF gc.grid_resolution = "16th" THEN 4 ELSE 2

\* round(x_ms, 1) of a length given in ticks, as a whole number of tenths of a ms
RoundTenthsMs(ticks) == PyRound(RDiv(RMul(ticks, RInt(10)), RInt(TicksPerMs)))

\* Bar numbering with a quotient truncated towards zero
BarOf_Truncating(grid_index, subdivisions_per_bar) ==
    IF grid_index >= 0
    THEN (grid_index \div subdivisions_per_bar) + 1
    ELSE 1 - ((0 - grid_index) \div subdivisions_per_bar)

\* int(grid_index // subdivisions_per_bar) + 1
BarOf(grid_index, subdivisions_per_bar) == (grid_index \div subdivisions_per_bar) + 1

\* round(1.0 + position_in_bar / subdivisions_per_beat, 2), in hundredths
BeatPositionOf(grid_index, spb) ==
    100 + (100 * (grid_index % (4 * spb))) \div spb

\* compute_deviation once the grid index is known
DeviationFrom(gc, onset_time, interval, grid_index, nearest_grid_time) ==
    [ deviation_ms |-> RoundTenthsMs(RSub(onset_time, nearest_grid_time)),
      nearest_grid_time |-> nearest_grid_time,
      bar |-> BarOf(grid_index, 4 * SubdivisionsPerBeat(gc)),
      beat_position |-> BeatPositionOf(grid_index, SubdivisionsPerBeat(gc)),
      grid_index |-> grid_index ]

\* A grid counted from time zero instead of from the reference
SnapTo_NoReference(gc, onset_time, interval, grid_index) ==
    DeviationFrom(gc, onset_time, interval, grid_index,
                  RMul(RInt(grid_index), interval))

\* nearest_grid_time = reference_time + grid_index * grid_interval
SnapTo(gc, onset_time, interval, grid_index) ==
    DeviationFrom(gc, onset_time, interval, grid_index,
                  RAdd(gc.reference_time, RMul(RInt(grid_index), interval)))

SnapOn(gc, onset_time, interval) ==
    SnapTo(gc, onset_time, interval,
           PyRound(RDiv(RSub(onset_time, gc.reference_time), interval)))

\* GridConfig.compute_deviation.  onset_time is a rational number of ticks,
\* deviation_ms is in tenths of a ms and
\* beat_position in hundredths of a beat, the units the code rounds them to.
compute_deviation(gc, onset_time) == SnapOn(gc, onset_time, grid_interval(gc))

(***************************************************************************)
(* Calibration: classify_onset                                             *)
(***************************************************************************)
\* A calibration record is None or names which profiles it carries.  The
\* audio window at an onset is an input: "unavailable" (it overruns the
\* buffer), "silent" (no features), or the side its scores favour: "click"
\* (score_met > score_gtr) or "guitar".
Windows == {"unavailable", "silent", "click", "guitar"}

\* Python truthiness of the calibration dict
Truthy(calibration) ==
    calibration # None /\ (calibration.metronome \/ calibration.guitar)

\* calibration.classify_onset
classify_onset(window, calibration) ==
    IF window = "unavailable" THEN "guitar"
    ELSE IF window = "silent" THEN "guitar"
    ELSE IF ~calibration.metronome \/ ~calibration.guitar THEN "guitar"
    ELSE IF window = "click" THEN "click" ELSE "guitar"

(***************************************************************************)
(* AudioPipeline                                                           *)
(***************************************************************************)
NoPipeline == <<>>

\* AudioPipeline.__init__.  timing_threshold_ms is in tenths of a ms.
NewPipeline(grid_resolution, timing_threshold_ms, calibration) ==
    [ grid_resolution |-> grid_resolution,
      timing_threshold_ms |-> timing_threshold_ms,
      calibration |-> calibration,
      audio_buffer |-> 0,
      grid_config |-> None,
      note_events |-> <<>>,
      metronome_detector |-> NewDetector,
      total_onset_count |-> 0 ]

\* AudioPipeline.is_grid_established
is_grid_established(p) == p.metronome_detector.locked

\* A pipeline that keeps the grid configuration built at the lock
sync_grid_Never(p) == p

\* AudioPipeline._sync_grid
sync_grid(p) ==
    IF \/ p.grid_config = None
       \/ p.metronome_detector.period = None
       \/ p.metronome_detector.reference_time = None
    THEN p
    ELSE IF \/ p.grid_config.bpm # p.metronome_detector.bpm
            \/ p.grid_config.reference_time # p.metronome_detector.reference_time
    THEN [p EXCEPT !.grid_config =
             GridConfig(p.metronome_detector.bpm, p.grid_resolution,
                        p.metronome_detector.reference_time)]
    ELSE p

\* AudioPipeline._classify_onset_spectral
classify_onset_spectral(p, window) ==
    IF ~Truthy(p.calibration) THEN "unknown"
    ELSE classify_onset(window, p.calibration)

\* A heuristic that expects a note with every click
is_note_expected_near_Always(p, onset_time) == TRUE

\* AudioPipeline._is_note_expected_near
is_note_expected_near(p, onset_time) ==
    IF Len(p.note_events) = 0 THEN FALSE
    ELSE RLt(RInt(onset_time - Last(p.note_events).time_seconds),
             RMul(p.metronome_detector.period, RInt(2)))

\* An on-time test that excludes a deviation equal to the threshold
IsOnTime_Strict(deviation_ms, timing_threshold_ms) == Abs(deviation_ms) < timing_threshold_ms

\* abs(deviation_ms) <= self.timing_threshold_ms
IsOnTime(deviation_ms, timing_threshold_ms) == Abs(deviation_ms) <= timing_threshold_ms

\* The NoteEvent appended for an onset scored against the grid
NoteOf(onset_time, d) ==
    [ time_seconds |-> onset_time,
      nearest_grid_time |-> d.nearest_grid_time,
      deviation_ms |-> d.deviation_ms,
      event_type |-> "note",
      pitch |-> None,
      bar |-> d.bar,
      beat_position |-> d.beat_position ]

\* The note_event emitted for it
NoteEventOf(onset_time, d, timing_threshold_ms) ==
    [ type |-> "note_event",
      time |-> onset_time,
      deviation_ms |-> d.deviation_ms,
      bar |-> d.bar,
      beat_position |-> d.beat_position,
      is_on_time |-> IsOnTime(d.deviation_ms, timing_threshold_ms) ]

\* Append the NoteEvent and emit the note_event.  st is [p, events, raised].
RecordNote(st, onset_time, d) ==
    [ p |-> [st.p EXCEPT !.note_events = Append(@, NoteOf(onset_time, d))],
      events |-> Append(st.events,
                        NoteEventOf(onset_time, d, st.p.timing_threshold_ms)),
      raised |-> FALSE ]

\* Score an onset against the grid.  With no grid built (grid_config is None)
\* the call raises AttributeError.
ScoreNote(st, onset_time) ==
    IF st.p.grid_config = None THEN [st EXCEPT !.raised = TRUE]
    ELSE RecordNote(st, onset_time,
                    compute_deviation(st.p.grid_config, RInt(onset_time)))

\* An undo that pops click_times and leaves click_indices alone
UndoClick_TimesOnly(md) ==
    [md EXCEPT !.click_times = Front(@),
               !.clicks_since_refit = Max(0, @ - 1)]

\* The undo of a click that the spectrum calls a guitar note
UndoClick(md) ==
    [md EXCEPT !.click_times = Front(@),
               !.click_indices = Front(@),
               !.clicks_since_refit = Max(0, @ - 1)]

\* A reconciliation in which the spectrum decides whenever there is a record
Reconcile_SpectrumWins(p, r, spectral_class) ==
    IF Truthy(p.calibration)
    THEN IF r.ret /\ spectral_class = "guitar"
         THEN [md |-> UndoClick(r.md), is_click |-> FALSE]
         ELSE [md |-> r.md, is_click |-> spectral_class = "click"]
    ELSE [md |-> r.md, is_click |-> r.ret]

\* A reconciliation that undoes a click for every onset the spectrum calls a
\* guitar note, whether or not track_onset recorded one
Reconcile_UndoAnyGuitar(p, r, spectral_class) ==
    IF Truthy(p.calibration)
    THEN IF spectral_class = "guitar"
         THEN [md |-> UndoClick(r.md), is_click |-> FALSE]
         ELSE IF ~r.ret /\ spectral_class = "click"
         THEN [md |-> r.md, is_click |-> FALSE]
         ELSE [md |-> r.md, is_click |-> r.ret]
    ELSE [md |-> r.md, is_click |-> r.ret]

\* The reconciliation of timing and spectrum: [md, is_click]
Reconcile(p, r, spectral_class) ==
    IF Truthy(p.calibration)
    THEN IF r.ret /\ spectral_class = "guitar"
         THEN [md |-> UndoClick(r.md), is_click |-> FALSE]
         ELSE IF ~r.ret /\ spectral_class = "click"
         THEN [md |-> r.md, is_click |-> FALSE]
         ELSE [md |-> r.md, is_click |-> r.ret]
    ELSE [md |-> r.md, is_click |-> r.ret]

ClickEvent(onset_time, count, total) ==
    [ type |-> "click_detected", time |-> onset_time,
      click_count |-> count, total_onsets |-> total ]

GridEstablishedEvent(md) ==
    [ type |-> "grid_established",
      bpm |-> PyRound(RMul(md.bpm, RInt(10))),
      reference_time |-> md.reference_time ]

\* The click branch: click_detected, and a note_event when a note is expected
EmitClick(st, onset_time) ==
    IF is_note_expected_near(st.p, onset_time)
    THEN ScoreNote(
           [st EXCEPT !.events = Append(@,
               ClickEvent(onset_time, click_count(st.p.metronome_detector),
                          st.p.total_onset_count))],
           onset_time)
    ELSE [st EXCEPT !.events = Append(@,
               ClickEvent(onset_time, click_count(st.p.metronome_detector),
                          st.p.total_onset_count))]

\* After the decision: _sync_grid, then the click branch or the note branch
EmitFor(st, onset_time, dec) ==
    IF dec.is_click
    THEN EmitClick([st EXCEPT !.p = sync_grid([@ EXCEPT !.metronome_detector = dec.md])],
                   onset_time)
    ELSE ScoreNote([st EXCEPT !.p = sync_grid([@ EXCEPT !.metronome_detector = dec.md])],
                   onset_time)

\* The post-lock branch of the loop body
PostLockOnset(st, o) ==
    EmitFor(st, o.time,
            Reconcile(st.p, track_onset(st.p.metronome_detector, o.time),
                      classify_onset_spectral(st.p, o.window)))

\* The pre-lock branch after add_onset returned r
AfterAddOnset(st, onset_time, r) ==
    IF r.raised
    THEN [st EXCEPT !.p.metronome_detector = r.md, !.raised = TRUE]
    ELSE IF r.ret
    THEN [st EXCEPT
            !.p = [@ EXCEPT !.metronome_detector = r.md,
                            !.grid_config = GridConfig(r.md.bpm, st.p.grid_resolution,
                                                       r.md.reference_time)],
            !.events = @ \o << ClickEvent(onset_time, click_count(r.md),
                                          total_onsets(r.md)),
                               GridEstablishedEvent(r.md) >>]
    ELSE [st EXCEPT
            !.p.metronome_detector = r.md,
            !.events = Append(@, ClickEvent(onset_time, click_count(r.md),
                                            total_onsets(r.md)))]

\* The pre-lock branch of the loop body
PreLockOnset(st, o) ==
    AfterAddOnset(st, o.time, add_onset(st.p.metronome_detector, o.time))

\* One iteration of `for onset_time in onsets`, after the count
BranchOnLock(st, o) ==
    IF ~is_grid_established(st.p) THEN PreLockOnset(st, o)
    ELSE PostLockOnset(st, o)

\* One iteration of `for onset_time in onsets`
ProcessOnset(st, o) ==
    BranchOnLock([st EXCEPT !.p.total_onset_count = @ + 1], o)

RECURSIVE ProcessOnsets(_, _)
ProcessOnsets(st, onsets) ==
    IF Len(onsets) = 0 \/ st.raised THEN st
    ELSE ProcessOnsets(ProcessOnset(st, Head(onsets)), Tail(onsets))

\* AudioPipeline.process_audio on a chunk [samples, onsets]: samples is the
\* chunk's length and onsets what the onset detector returns for it, each
\* [time, window] with the audio window found at it.  The result is
\* [p, events, raised]; the events reach the caller only when nothing raised.
process_audio(p, chunk) ==
    ProcessOnsets([ p |-> [p EXCEPT !.audio_buffer = @ + chunk.samples],
                    events |-> <<>>, raised |-> FALSE ],
                  chunk.onsets)

\* AudioPipeline.save_session: "none" (empty buffer, nothing written), "saved",
\* or "raised" when sf.write fails.
save_session(p, write_fails) ==
    IF p.audio_buffer = 0 THEN "none"
    ELSE IF write_fails THEN "raised" ELSE "saved"

\* The sum of the rationals s[lo..hi], by halves
RECURSIVE RSumRange(_, _, _)
RSumRange(s, lo, hi) ==
    IF lo > hi THEN RInt(0)
    ELSE IF lo = hi THEN s[lo]
    ELSE RAdd(RSumRange(s, lo, (lo + hi) \div 2),
              RSumRange(s, ((lo + hi) \div 2) + 1, hi))

RSumSeq(s) == RSumRange(s, 1, Len(s))

\* The sum of the products k[i] * e[i]
RSumProd(k, e) ==
    RSumSeq([i \in 1..Len(k) |-> RMul(RInt(k[i]), e[i])])

\* errors_ms = (times - (reference_time + indices * period)) * 1000.0
ClickErrorsMs(md) ==
    [i \in 1..Len(md.click_times) |->
        RDiv(RSub(RInt(md.click_times[i]),
                  RAdd(md.reference_time,
                       RMul(RInt(md.click_indices[i]), md.period))),
             RInt(TicksPerMs))]

\* The slope of the least-squares line through (k[i], e[i]).  D = 0 needs
\* every click on one index, which four clicks 50 ms apart never are.
SlopeFrom(n, Sk, Se, Skk, Ske, D) ==
    IF D = 0 THEN RInt(0)
    ELSE RDiv(RSub(RMul(RInt(n), Ske), RMul(RInt(Sk), Se)), RInt(D))

\* np.polyfit(indices, errors_ms, 1)[0]
PolyfitSlope(k, e) ==
    SlopeFrom(Len(k), SumSeq(k), RSumSeq(e), SumProd(k, k), RSumProd(k, e),
              Len(k) * SumProd(k, k) - SumSeq(k) * SumSeq(k))

\* drift_ms_per_beat, in hundredths of a ms
DriftMsPerBeat(md) ==
    IF Len(md.click_times) >= 4
    THEN PyRound(RMul(PolyfitSlope(md.click_indices, ClickErrorsMs(md)), RInt(100)))
    ELSE 0

\* AudioPipeline._compute_metronome_stats: the entries that need no square
\* root or percentage
compute_metronome_stats(p) ==
    IF \/ Len(p.metronome_detector.click_times) < 3
       \/ p.metronome_detector.period = None
       \/ p.metronome_detector.reference_time = None
    THEN [ total_clicks |-> Len(p.metronome_detector.click_times),
           error |-> "Too few clicks for analysis" ]
    ELSE [ total_clicks |-> Len(p.metronome_detector.click_times),
           expected_interval_ms |-> RoundTenthsMs(p.metronome_detector.period),
           drift_ms_per_beat |-> DriftMsPerBeat(p.metronome_detector) ]

\* An error-shaped session_report; msg is a tuple, the message and its numbers
ErrorReport(msg) == [type |-> "session_report", error |-> msg]

Deviations(p) == [i \in 1..Len(p.note_events) |-> p.note_events[i].deviation_ms]
AbsDeviations(p) == [i \in 1..Len(p.note_events) |-> Abs(p.note_events[i].deviation_ms)]

\* sum(1 for d in abs_devs if d <= self.timing_threshold_ms)
OnTimeCount(p) ==
    Cardinality({i \in 1..Len(p.note_events) :
        Abs(p.note_events[i].deviation_ms) <= p.timing_threshold_ms})

\* int(np.argmax(abs_devs)): the first index of the largest
ArgMax(s) ==
    CHOOSE i \in 1..Len(s) :
        /\ \A k \in 1..Len(s) : s[k] <= s[i]
        /\ \A k \in 1..(i - 1) : s[k] < s[i]

\* The "stats" of a success report: means in tenths of a ms, accuracy in
\* tenths of a percent.  (The standard deviation and the median are left out.)
ReportStats(p) ==
    [ total_notes |-> Len(p.note_events),
      mean_absolute_deviation_ms |->
          PyRound(Rat(SumSeq(AbsDeviations(p)), Len(p.note_events))),
      mean_signed_deviation_ms |->
          PyRound(Rat(SumSeq(Deviations(p)), Len(p.note_events))),
      worst_deviation_ms |-> Deviations(p)[ArgMax(AbsDeviations(p))],
      accuracy_percent |->
          PyRound(Rat(OnTimeCount(p) * 1000, Len(p.note_events))) ]

SuccessReport(p) ==
    [ type |-> "session_report",
      bpm |-> PyRound(RMul(p.metronome_detector.bpm, RInt(10))),
      grid_resolution |-> p.grid_resolution,
      total_bars |-> Last(p.note_events).bar,
      events |-> p.note_events,
      click_times |-> p.metronome_detector.click_times,
      stats |-> ReportStats(p),
      metronome_stats |-> compute_metronome_stats(p) ]

\* A report that looks at the lock before it looks at the buffer
generate_report_LockFirst(p, write_fails) ==
    IF save_session(p, write_fails) = "raised"
    THEN [report |-> None, raised |-> TRUE]
    ELSE IF ~is_grid_established(p)
    THEN [ report |-> ErrorReport(<<"No metronome detected", p.total_onset_count,
                                    click_count(p.metronome_detector)>>),
           raised |-> FALSE ]
    ELSE IF p.audio_buffer = 0
    THEN [report |-> ErrorReport(<<"No audio recorded">>), raised |-> FALSE]
    ELSE IF Len(p.note_events) = 0
    THEN [report |-> ErrorReport(<<"No guitar notes detected">>), raised |-> FALSE]
    ELSE [report |-> SuccessReport(p), raised |-> FALSE]

\* AudioPipeline.generate_report: [report, raised].  save_session runs first
\* and is not guarded: a failed write raises out of generate_report.
generate_report(p, write_fails) ==
    IF save_session(p, write_fails) = "raised"
    THEN [report |-> None, raised |-> TRUE]
    ELSE IF p.audio_buffer = 0
    THEN [report |-> ErrorReport(<<"No audio recorded">>), raised |-> FALSE]
    ELSE IF ~is_grid_established(p)
    THEN [ report |-> ErrorReport(<<"No metronome detected", p.total_onset_count,
                                    click_count(p.metronome_detector)>>),
           raised |-> FALSE ]
    ELSE IF Len(p.note_events) = 0
    THEN [report |-> ErrorReport(<<"No guitar notes detected">>), raised |-> FALSE]
    ELSE [report |-> SuccessReport(p), raised |-> FALSE]

(***************************************************************************)
(* A pipeline fed onsets one chunk at a time                               *)
(***************************************************************************)
\* An onset is reported once its 512-sample frame is in the chunk: the chunk
\* that carries an onset ends this long after it (12 ms).
FRAME_TAIL == 12 * TicksPerMs

MaxOnsets == 8

\* Gaps between consecutive onsets, in ticks.  Before the lock the metronome
\* plays alone, 250 ms or 240 ms after the previous click.  After the lock an
\* onset follows the previous one by 50 ms (a note next to a grid line),
\* 125 ms (an off-beat note), 250 ms (a click) or 260 ms (a late click).
PreLockGaps == {720, 750}
PostLockGaps == {150, 375, 750, 780}

\* The audio windows the environment offers at an onset.  Without a usable
\* calibration record, and before the lock, the window is never looked at.
WindowsAt(p, gap) ==
    IF ~Truthy(p.calibration) \/ ~is_grid_established(p) THEN {"silent"}
    ELSE IF gap = 150 THEN {"guitar"}
    ELSE IF gap = 780 THEN {"click"}
    ELSE {"click", "guitar"}

\* <<grid resolution, timing threshold in tenths of a ms, calibration>>
Configs ==
    { <<"8th", 300, None>>,
      <<"16th", 300, [metronome |-> TRUE, guitar |-> TRUE]>>,
      <<"8th", 100, [metronome |-> TRUE, guitar |-> FALSE]>> }

\* What the loop body decided for the onset it handled last (a record of the
\* run, read by the properties only): the branch taken, what track_onset
\* returned and the spectral class.
NoStep == [branch |-> "none"]

StepOf(p, t, w) ==
    IF ~is_grid_established(p) THEN [branch |-> "pre-lock", time |-> t]
    ELSE [ branch |-> "post-lock", time |-> t,
           timing_is_click |-> track_onset(p.metronome_detector, t).ret,
           spectral_class |-> classify_onset_spectral(p, w) ]

IdleSession == [pc |-> "none"]
NoDetectors == <<>>

Init ==
    /\ \E c \in Configs : pipeline = NewPipeline(c[1], c[2], c[3])
    /\ outbox = <<>>
    /\ session = IdleSession
    /\ feed = [status |-> "running", last |-> 0, step |-> NoStep]
    /\ detectors = NoDetectors

\* A chunk that carries one onset at time t
OneOnsetChunk(p, t, w) ==
    [ samples |-> t + FRAME_TAIL - p.audio_buffer,
      onsets |-> <<[time |-> t, window |-> w]>> ]

\* process_audio on a chunk in which the onset detector finds one onset.  An
\* exception ends the run: the caller drops the events and closes the session.
ProcessAudio ==
    /\ feed.status = "running"
    /\ pipeline.total_onset_count < MaxOnsets
    /\ \E g \in (IF is_grid_established(pipeline) THEN PostLockGaps ELSE PreLockGaps) :
         \E w \in WindowsAt(pipeline, g) :
           \E r \in {process_audio(pipeline, OneOnsetChunk(pipeline, feed.last + g, w))} :
             /\ pipeline' = r.p
             /\ outbox' = IF r.raised THEN outbox ELSE outbox \o r.events
             /\ feed' = [status |-> IF r.raised THEN "raised" ELSE "running",
                         last |-> feed.last + g,
                         step |-> StepOf(pipeline, feed.last + g, w)]
    /\ UNCHANGED <<session, detectors>>

\* generate_report at stop
Stop ==
    /\ feed.status = "running"
    /\ \E write_fails \in BOOLEAN :
         \E r \in {generate_report(pipeline, write_fails)} :
           /\ outbox' = IF r.raised THEN outbox ELSE Append(outbox, r.report)
           /\ feed' = [feed EXCEPT !.status =
                          IF r.raised THEN "raised" ELSE "reported"]
    /\ UNCHANGED <<pipeline, session, detectors>>

Next == ProcessAudio \/ Stop

Spec == Init /\ [][Next]_vars


(***************************************************************************)
(* Practice scenarios: a metronome, alone or with a guitar                 *)
(***************************************************************************)
\* RealtimeOnsetDetector(min_interval_seconds=0.05), as the pipeline builds it
MIN_INTERVAL_S == 50 * TicksPerMs

\* How far the guitar trails the click in the pattern "late" (20 ms)
LATE_BY == 20 * TicksPerMs

MaxClicks == 10

\* Click periods of the scenarios, in ticks: 240, 120, 100, 90 and 40 BPM
ScenarioPeriods == {750, 1500, 1800, 2000, 4500}
Patterns == {"metronome", "late", "offbeat", "drifting"}

\* A scenario: the metronome clicks every `period` from `first` on; from beat
\* `start` on a guitar plays with every click, LATE_BY after it ("late") or
\* half a period after it ("offbeat").  In the pattern "drifting" the metronome
\* is alone and slows down: each interval is 1 ms longer than the one before.
Scenarios ==
    { [pattern |-> pt, period |-> P, first |-> f, start |-> s, grid_resolution |-> g] :
        pt \in Patterns, P \in ScenarioPeriods, f \in {300, 1500}, s \in {0, 4},
        g \in {"8th", "16th"} }

\* How much later than on an even grid the click of beat k of a drifting
\* metronome comes: 0 + 1 + ... + (k - 1) ms
DriftAt(k) == TicksPerMs * ((k * (k - 1)) \div 2)

\* The clicks of a scenario: twice as many for a drifting metronome
ClicksOf(sc) == IF sc.pattern = "drifting" THEN 2 * MaxClicks ELSE MaxClicks

\* The attacks (sound onsets in the room) of beat k, in time order
BeatAttacks(sc, k) ==
    IF sc.pattern = "drifting"
    THEN << sc.first + k * sc.period + DriftAt(k) >>
    ELSE IF sc.pattern = "metronome" \/ k < sc.start
    THEN << sc.first + k * sc.period >>
    ELSE IF sc.pattern = "late"
    THEN << sc.first + k * sc.period, sc.first + k * sc.period + LATE_BY >>
    ELSE << sc.first + k * sc.period, sc.first + k * sc.period + (sc.period \div 2) >>

RECURSIVE ScriptFrom(_, _)
ScriptFrom(sc, k) ==
    IF k >= ClicksOf(sc) THEN <<>>
    ELSE BeatAttacks(sc, k) \o ScriptFrom(sc, k + 1)

\* What the onset detector reports for an attack at time t when its last
\* reported onset was at `last` (-1 before the first): nothing within the
\* minimum interval.
DetectedOnsets(t, last) ==
    IF last < 0 \/ t - last >= MIN_INTERVAL_S
    THEN << [time |-> t, window |-> "silent"] >>
    ELSE << >>

ScenarioChunk(p, t, onsets) ==
    [ samples |-> t + FRAME_TAIL - p.audio_buffer, onsets |-> onsets ]

ScenarioInit ==
    /\ \E sc \in Scenarios :
         /\ (sc.pattern \in {"metronome", "drifting"} => sc.start = 0)
         /\ (sc.pattern = "drifting" => sc.first = 300)
         /\ pipeline = NewPipeline(sc.grid_resolution, 300, None)
         /\ feed = [ status |-> "running", last |-> -1, step |-> NoStep,
                     scenario |-> sc, script |-> ScriptFrom(sc, 0), played |-> 0 ]
    /\ outbox = <<>>
    /\ session = IdleSession
    /\ detectors = NoDetectors

\* The chunk with the next attack of the script goes through process_audio
PlayAttack ==
    /\ feed.status = "running"
    /\ feed.played < Len(feed.script)
    /\ \E t \in {feed.script[feed.played + 1]} :
         \E onsets \in {DetectedOnsets(t, feed.last)} :
           \E r \in {process_audio(pipeline, ScenarioChunk(pipeline, t, onsets))} :
             /\ pipeline' = r.p
             /\ outbox' = IF r.raised THEN outbox ELSE outbox \o r.events
             /\ feed' = [feed EXCEPT
                           !.status = IF r.raised THEN "raised" ELSE "running",
                           !.last = IF Len(onsets) > 0 THEN t ELSE @,
                           !.played = @ + 1,
                           !.step = IF Len(onsets) > 0
                                    THEN StepOf(pipeline, t, "silent")
                                    ELSE NoStep]
    /\ UNCHANGED <<session, detectors>>

ScenarioNext == PlayAttack \/ Stop

ScenarioSpec == ScenarioInit /\ [][ScenarioNext]_vars

(***************************************************************************)
(* RealtimeOnsetDetector                                                   *)
(*                                                                         *)
(* Audio is a sequence of blocks of BLOCK samples of one amplitude each,   *)
(* in units of 1e-4 of full scale.  smoothed_rms, mean_rms and the         *)
(* threshold are in units of 1e-6 (fixed point for the floats of the       *)
(* source).  Onset times are sample positions: seconds * sample_rate.      *)
(* The floats that are not finite are NaN and Inf (an infinity of either   *)
(* sign is +inf once squared); every finite value of the model is >= 0.    *)
(***************************************************************************)
SAMPLE_RATE == 44100
FRAME_SIZE == 512
HOP_SIZE == 256
BLOCK == HOP_SIZE \div 2
FrameBlocks == FRAME_SIZE \div BLOCK
HopBlocks == HOP_SIZE \div BLOCK

NaN == 0 - 1
Inf == 0 - 2

\* x > y on floats: false when either side is NaN
Gt(x, y) ==
    IF x = NaN \/ y = NaN THEN FALSE
    ELSE IF x = Inf THEN y # Inf
    ELSE IF y = Inf THEN FALSE
    ELSE x > y

\* (a * x + b * y) / d on floats, with weights a, b > 0
Mix(a, x, b, y, d) ==
    IF x = NaN \/ y = NaN THEN NaN
    ELSE IF x = Inf \/ y = Inf THEN Inf
    ELSE (a * x + b * y) \div d

\* x * n / d on floats, n > 0
Scale(x, n, d) == IF x < 0 THEN x ELSE (x * n) \div d

\* Python's max(a, b): b if b > a, else a
PyMax(a, b) == IF Gt(b, a) THEN b ELSE a

\* min_threshold = 0.001, in 1e-6
MIN_THRESHOLD == 1000
\* `self.last_onset_time = None`
NoOnsetYet == -1

\* RealtimeOnsetDetector.__init__; min_interval is in samples
NewOnsetDetector(min_interval) ==
    [ min_interval |-> min_interval,
      last_onset_time |-> NoOnsetYet,
      total_samples |-> 0,
      smoothed_rms |-> 0,
      mean_rms |-> 0,
      above_threshold |-> FALSE,
      peak_rms |-> 0,
      frame_count |-> 0 ]

\* The detector the pipeline builds: min_interval_seconds = 0.05
PipelineOnsetDetector == NewOnsetDetector(SAMPLE_RATE \div 20)

\* floor(sqrt(x)), by bisection on lo <= sqrt(x) < hi
RECURSIVE SqrtBetween(_, _, _)
SqrtBetween(x, lo, hi) ==
    IF hi - lo <= 1 THEN lo
    ELSE IF ((lo + hi) \div 2) * ((lo + hi) \div 2) <= x
    THEN SqrtBetween(x, (lo + hi) \div 2, hi)
    ELSE SqrtBetween(x, lo, (lo + hi) \div 2)

Isqrt(x) == SqrtBetween(x, 0, 10001)

RECURSIVE SumSquares(_, _, _)
SumSquares(chunk, from, to) ==
    IF from > to THEN 0
    ELSE chunk[from] * chunk[from] + SumSquares(chunk, from + 1, to)

FrameHas(chunk, b, v) ==
    \E i \in (b + 1)..(b + FrameBlocks) : chunk[i] = v

\* float(np.sqrt(np.mean(frame**2))) for the frame that starts at block b + 1,
\* in 1e-6
FrameRms(chunk, b) ==
    IF FrameHas(chunk, b, NaN) THEN NaN
    ELSE IF FrameHas(chunk, b, Inf) THEN Inf
    ELSE 100 * Isqrt(SumSquares(chunk, b + 1, b + FrameBlocks) \div FrameBlocks)

\* max(self.min_threshold, self.mean_rms * self.threshold_ratio)
Threshold(det) == PyMax(MIN_THRESHOLD, Scale(det.mean_rms, 3, 2))

\* A rising edge that closes the gate only when it reports the onset
RisingEdge_GateOnReport(st, onset_time) ==
    IF st.det.last_onset_time = NoOnsetYet
       \/ onset_time - st.det.last_onset_time >= st.det.min_interval
    THEN [ det |-> [st.det EXCEPT !.above_threshold = TRUE,
                                  !.last_onset_time = onset_time],
           onsets |-> Append(st.onsets, onset_time) ]
    ELSE st

\* The rising edge: the gate closes, and the onset is reported unless the last
\* one is less than min_interval back.  st is [det, onsets].
RisingEdge(st, onset_time) ==
    IF st.det.last_onset_time = NoOnsetYet
       \/ onset_time - st.det.last_onset_time >= st.det.min_interval
    THEN [ det |-> [st.det EXCEPT !.above_threshold = TRUE,
                                  !.last_onset_time = onset_time],
           onsets |-> Append(st.onsets, onset_time) ]
    ELSE [st EXCEPT !.det.above_threshold = TRUE]

\* `if self.smoothed_rms > threshold: ... else: ...`
Gate(st, threshold, onset_time) ==
    IF Gt(st.det.smoothed_rms, threshold)
    THEN IF ~st.det.above_threshold THEN RisingEdge(st, onset_time) ELSE st
    ELSE IF Gt(Scale(threshold, 4, 1), Scale(st.det.smoothed_rms, 10, 1))
    THEN [st EXCEPT !.det.above_threshold = FALSE]
    ELSE st

\* The asymmetric baseline and the frame count
UpdateMean(st, rms) ==
    [st EXCEPT !.det.mean_rms = IF Gt(rms, @) THEN Mix(1, rms, 99, @, 100)
                                ELSE Mix(5, rms, 95, @, 100),
               !.det.frame_count = @ + 1]

\* One iteration of the frame loop, for the frame at block b of the chunk
ProcessFrame(st, rms, b) ==
    UpdateMean(
        Gate([st EXCEPT !.det.smoothed_rms = Mix(3, rms, 7, @, 10),
                        !.det.peak_rms = IF Gt(rms, @) THEN rms ELSE @],
             Threshold(st.det),
             st.det.total_samples + b * BLOCK),
        rms)

\* `for i in range(0, len(audio_chunk) - frame_size + 1, hop_size)`
RECURSIVE FrameLoop(_, _, _)
FrameLoop(st, chunk, b) ==
    IF b + FrameBlocks > Len(chunk) THEN st
    ELSE FrameLoop(ProcessFrame(st, FrameRms(chunk, b), b), chunk, b + HopBlocks)

AfterFrames(st, chunk) ==
    [st EXCEPT !.det.total_samples = @ + Len(chunk) * BLOCK]

\* RealtimeOnsetDetector.process_chunk: [det, onsets]
process_chunk(det, chunk) ==
    AfterFrames(FrameLoop([det |-> det, onsets |-> <<>>], chunk, 0), chunk)

\* RealtimeOnsetDetector.reset
reset(det) ==
    [det EXCEPT !.last_onset_time = NoOnsetYet, !.total_samples = 0,
                !.smoothed_rms = 0, !.mean_rms = 0, !.above_threshold = FALSE,
                !.peak_rms = 0, !.frame_count = 0]

(***************************************************************************)
(* A detector fed a stream chunk by chunk                                  *)
(***************************************************************************)
MaxBlocks == 8

\* Chunk lengths in blocks: 128, 384, 512 and 1024 samples
ChunkBlocks == {1, 3, 4, 8}
\* Silence, a loud signal (0.3 of full scale), and samples that are not finite
Levels == {0, 3000, NaN, Inf}

\* The chunk with every sample that is not finite replaced by 0
Zeroed(chunk) == [i \in 1..Len(chunk) |-> IF chunk[i] < 0 THEN 0 ELSE chunk[i]]

OnsetInit ==
    /\ detectors = [det |-> PipelineOnsetDetector, onsets |-> <<>>,
                    zeroed |-> [det |-> PipelineOnsetDetector, onsets |-> <<>>]]
    /\ feed = [stream |-> <<>>, chunks |-> 0]
    /\ pipeline = NoPipeline
    /\ outbox = <<>>
    /\ session = IdleSession

\* process_chunk on the next chunk of the stream; detectors.zeroed is a
\* second detector, fed the same chunks with 0 for every non-finite sample
FeedChunk ==
    /\ \E n \in ChunkBlocks : \E a \in Levels :
         /\ Len(feed.stream) + n <= MaxBlocks
         /\ \E r \in {process_chunk(detectors.det, [i \in 1..n |-> a])} :
            \E z \in {process_chunk(detectors.zeroed.det,
                                    Zeroed([i \in 1..n |-> a]))} :
              /\ detectors' = [det |-> r.det, onsets |-> detectors.onsets \o r.onsets,
                               zeroed |-> [det |-> z.det,
                                           onsets |-> detectors.zeroed.onsets \o z.onsets]]
              /\ feed' = [stream |-> feed.stream \o [i \in 1..n |-> a],
                          chunks |-> feed.chunks + 1]
    /\ UNCHANGED <<pipeline, outbox, session>>

OnsetNext == FeedChunk

OnsetSpec == OnsetInit /\ [][OnsetNext]_vars

\* C3: the onsets reported for a stream fed in sub-chunks are the onsets
\* reported for the same stream fed as one chunk.
C3_ChunkSplitInvariance ==
    detectors.onsets = process_chunk(PipelineOnsetDetector, feed.stream).onsets

\* C22 as stated: samples that are not finite count as zeros: smoothed_rms
\* and mean_rms stay finite, and the onsets reported are those reported for
\* the same chunks with 0 in place of every such sample.
C22_NonFiniteAsZero ==
    /\ detectors.det.smoothed_rms >= 0
    /\ detectors.det.mean_rms >= 0
    /\ detectors.onsets = detectors.zeroed.onsets

(***************************************************************************)
(* audio_ws_handler: one websocket session                                 *)
(***************************************************************************)
\* The frames the handler sends
CalibrationStarted(step) == [type |-> "calibration_started", step |-> step]
CalibrationProfile(step, profile) ==
    [type |-> "calibration_result", step |-> step, profile |-> profile]
CalibrationError(step, error) ==
    [type |-> "calibration_result", step |-> step, error |-> error]
Started == [type |-> "started"]
ReportGenerationFailed == ErrorReport(<<"Report generation failed">>)
NoActiveSession == ErrorReport(<<"No active session">>)
ServerError == ErrorReport(<<"Server error">>)

\* The staging buffer as the handler needs it: how many samples it holds and
\* how many onsets an analysis finds in them.  `cal_buffer = None` is None.
EmptyCalBuffer == [samples |-> 0, onsets |-> 0]

\* calibration.extract_profile, up to the profile's onset_count
extract_profile(cal_buffer) == [onset_count |-> cal_buffer.onsets]

\* The handler's locals after socket.accept()
NewSession ==
    [ pc |-> "receiving",
      cal_buffer |-> None,
      cal_sample_rate |-> 44100,
      cal_step |-> None,
      audio_msg_count |-> 0,
      disconnected |-> FALSE ]

MaxFrames == 7

\* The sample rate a calibrate control names (absent means 44100)
SampleRates == {44100}
\* <<grid, threshold, calibration>> of a start control
StartConfigs ==
    { <<"8th", 300, None>>,
      <<"16th", 300, [metronome |-> TRUE, guitar |-> TRUE]>> }

\* Gaps between the onsets of a session's audio: a 240 BPM metronome whose
\* fourth click may come 10 ms early; after the lock a click or an off-beat note
SessionGaps(p) ==
    IF ~is_grid_established(p)
    THEN IF p.total_onset_count = 3 THEN {720, 750} ELSE {750}
    ELSE {375, 750}

SessionInit ==
    /\ session = NewSession
    /\ pipeline = NoPipeline
    /\ outbox = <<>>
    /\ feed = [frames |-> 0, last |-> 0, frame |-> "none"]
    /\ detectors = NoDetectors

\* feed.frames counts the frames received that left a mark on the handler,
\* and feed.frame says what the last of them was
Receiving == session.pc = "receiving" /\ feed.frames < MaxFrames

Received(kind) == [feed EXCEPT !.frames = @ + 1, !.frame = kind]

\* `except Exception`: the error report, then `finally: socket.close()`
Fail ==
    /\ outbox' = Append(outbox, ServerError)
    /\ session' = [session EXCEPT !.pc = "closed"]

\* `if len(data) < 1: continue`
RecvEmpty ==
    /\ session.pc = "receiving"
    /\ UNCHANGED vars

\* {"type": "calibrate", ...}
RecvCalibrate ==
    /\ Receiving
    /\ \E step \in {"metronome", "guitar"} : \E rate \in SampleRates :
         /\ session' = [session EXCEPT !.cal_step = step,
                                       !.cal_sample_rate = rate,
                                       !.cal_buffer = EmptyCalBuffer,
                                       !.audio_msg_count = 0]
         /\ outbox' = Append(outbox, CalibrationStarted(step))
    /\ feed' = Received("calibrate")
    /\ UNCHANGED <<pipeline, detectors>>

\* {"type": "stop_calibration"}; the analysis may raise
RecvStopCalibration ==
    /\ Receiving
    /\ \E analysis_fails \in BOOLEAN :
         outbox' = Append(outbox,
            IF session.cal_buffer # None /\ session.cal_buffer.samples > 0
            THEN IF analysis_fails
                 THEN CalibrationError(session.cal_step,
                                       <<"Calibration analysis failed">>)
                 ELSE CalibrationProfile(session.cal_step,
                                         extract_profile(session.cal_buffer))
            ELSE CalibrationError(session.cal_step,
                                  <<"No audio recorded during calibration">>))
    /\ session' = [session EXCEPT !.cal_buffer = None, !.cal_step = None]
    /\ feed' = Received("stop_calibration")
    /\ UNCHANGED <<pipeline, detectors>>

\* {"type": "start", ...}
RecvStart ==
    /\ Receiving
    /\ \E c \in StartConfigs : pipeline' = NewPipeline(c[1], c[2], c[3])
    /\ session' = [session EXCEPT !.audio_msg_count = 0]
    /\ outbox' = Append(outbox, Started)
    /\ feed' = [frames |-> feed.frames + 1, last |-> 0, frame |-> "start"]
    /\ UNCHANGED detectors

\* The frame a stop control is answered with
StopReply(p, r) ==
    IF p = NoPipeline THEN NoActiveSession
    ELSE IF r.raised THEN ReportGenerationFailed
    ELSE r.report

\* A handler that goes on receiving after it has answered a stop
Break_Missing(s) == s

\* `break` out of the receive loop, into `finally: socket.close()`
Break(s) == [s EXCEPT !.pc = "closed"]

\* {"type": "stop"}: the report, then `break`
RecvStop ==
    /\ Receiving
    /\ \E write_fails \in BOOLEAN :
         \E r \in {IF pipeline = NoPipeline THEN [raised |-> FALSE]
                   ELSE generate_report(pipeline, write_fails)} :
           outbox' = Append(outbox, StopReply(pipeline, r))
    /\ session' = Break(session)
    /\ feed' = Received("stop")
    /\ UNCHANGED <<pipeline, detectors>>

\* A control frame that is not JSON, or JSON without "type": json.loads or
\* msg["type"] raises
RecvBadControl ==
    /\ Receiving
    /\ Fail
    /\ \E kind \in {"malformed control", "control without type"} :
         feed' = Received(kind)
    /\ UNCHANGED <<pipeline, detectors>>

\* A control frame whose type is none of the four: no branch is taken
RecvUnknownControl ==
    /\ session.pc = "receiving"
    /\ UNCHANGED vars

\* A handler that cuts a misaligned payload down to whole samples and keeps it
DropMisaligned_Truncating(s) ==
    IF s.cal_buffer # None
    THEN [s EXCEPT !.audio_msg_count = @ + 1,
                   !.cal_buffer = [@ EXCEPT !.samples = @ + 1]]
    ELSE [s EXCEPT !.audio_msg_count = @ + 1]

\* `audio_msg_count += 1`, then `if len(payload) % 4 != 0: continue`
DropMisaligned(s) == [s EXCEPT !.audio_msg_count = @ + 1]

\* An audio frame whose payload is not a whole number of float32 samples
RecvMisalignedAudio ==
    /\ Receiving
    /\ session' = DropMisaligned(session)
    /\ feed' = Received("misaligned audio")
    /\ UNCHANGED <<pipeline, outbox, detectors>>

\* A routing that prefers the session pipeline to the staging buffer
AudioRoute_PipelineFirst(s, p) ==
    IF p # NoPipeline THEN "pipeline"
    ELSE IF s.cal_buffer # None THEN "calibration"
    ELSE "dropped"

\* `if cal_buffer is not None: ... elif pipeline: ...`
AudioRoute(s, p) ==
    IF s.cal_buffer # None THEN "calibration"
    ELSE IF p # NoPipeline THEN "pipeline"
    ELSE "dropped"

\* An audio frame during calibration: appended to the staging buffer
RecvCalibrationAudio ==
    /\ Receiving
    /\ AudioRoute(session, pipeline) = "calibration"
    /\ \E k \in {0, 1} :
         session' = [session EXCEPT
                        !.audio_msg_count = @ + 1,
                        !.cal_buffer = [samples |-> @.samples + 4096,
                                        onsets |-> @.onsets + k]]
    /\ feed' = Received("audio")
    /\ UNCHANGED <<pipeline, outbox, detectors>>

\* An audio frame of a session: process_audio, then one frame out per event
RecvSessionAudio ==
    /\ Receiving
    /\ AudioRoute(session, pipeline) = "pipeline"
    /\ \E g \in SessionGaps(pipeline) :
         \E w \in WindowsAt(pipeline, g) :
           \E r \in {process_audio(pipeline, OneOnsetChunk(pipeline, feed.last + g, w))} :
             /\ pipeline' = r.p
             /\ outbox' = IF r.raised THEN Append(outbox, ServerError)
                          ELSE outbox \o r.events
             /\ session' = [session EXCEPT
                              !.audio_msg_count = @ + 1,
                              !.pc = IF r.raised THEN "closed" ELSE @]
             /\ feed' = [frames |-> feed.frames + 1, last |-> feed.last + g,
                         frame |-> "audio"]
    /\ UNCHANGED detectors

\* An audio frame with neither a calibration nor a session under way
RecvIdleAudio ==
    /\ Receiving
    /\ AudioRoute(session, pipeline) = "dropped"
    /\ session' = [session EXCEPT !.audio_msg_count = @ + 1]
    /\ feed' = Received("audio")
    /\ UNCHANGED <<pipeline, outbox, detectors>>

\* A frame whose tag is neither 0x00 nor 0x01
RecvOtherTag ==
    /\ session.pc = "receiving"
    /\ UNCHANGED vars

\* The peer goes away: receive_data raises, the error report cannot be sent
Disconnect ==
    /\ session.pc = "receiving"
    /\ session' = [session EXCEPT !.pc = "closed", !.disconnected = TRUE]
    /\ UNCHANGED <<pipeline, outbox, feed, detectors>>

SessionNext ==
    \/ RecvEmpty
    \/ RecvCalibrate
    \/ RecvStopCalibration
    \/ RecvStart
    \/ RecvStop
    \/ RecvBadControl
    \/ RecvUnknownControl
    \/ RecvMisalignedAudio
    \/ RecvCalibrationAudio
    \/ RecvSessionAudio
    \/ RecvIdleAudio
    \/ RecvOtherTag
    \/ Disconnect

SessionSpec == SessionInit /\ [][SessionNext]_vars
(***************************************************************************)
(* Properties of the metronome detector and the pipeline (Spec)            *)
(***************************************************************************)
MD == pipeline.metronome_detector

NoteEventsIn(box) == SelectSeq(box, LAMBDA e : e.type = "note_event")
ClickEventsIn(box) == SelectSeq(box, LAMBDA e : e.type = "click_detected")
GridEventsIn(box) == SelectSeq(box, LAMBDA e : e.type = "grid_established")
ReportsIn(box) == SelectSeq(box, LAMBDA e : e.type = "session_report")

\* C4: whenever the detector is locked, period is defined and lies in
\* [0.25 s, 1.5 s], reference_time is defined and bpm = 60 / period.
C4_LockedPeriodDefinedInRange ==
    MD.locked =>
        /\ MD.period # None
        /\ MD.reference_time # None
        /\ MD.bpm # None
        /\ PeriodInRange(MD.period)
        /\ RMul(MD.bpm, MD.period) = RInt(60 * TicksPerSecond)

\* C5: in every post-lock state click_times is sorted ascending and is as
\* long as click_indices.
C5_ClickTimesSortedAndPaired ==
    MD.locked =>
        /\ IsSorted(MD.click_times)
        /\ Len(MD.click_times) = Len(MD.click_indices)

\* C5 witness: a locked state after a spectral-override undo, with clicks
\* accepted since the lock and a note recorded.
C5_Witness ==
    /\ MD.locked
    /\ feed.step.branch = "post-lock"
    /\ feed.step.timing_is_click
    /\ feed.step.spectral_class = "guitar"
    /\ Len(MD.click_times) > MIN_PERIODIC_ONSETS
    /\ Len(pipeline.note_events) > 1

\* |t - (reference + n * period)| in ms, for the detector state md
ClickResidualMs(md, t, n) ==
    RDiv(RAbs(RSub(RInt(t), RAdd(md.reference_time, RMul(RInt(n), md.period)))),
         RInt(TicksPerMs))

\* C6: a step that leaves one more click on record appended an onset whose
\* distance from its beat, on the grid in force before the step, is at most
\* min(period * 250, 50) ms.
C6_AppendedWithinTolerance ==
    [][ ( /\ MD.locked
          /\ MD.period # None
          /\ Len(MD'.click_times) = Len(MD.click_times) + 1 )
        => /\ RLe(ClickResidualMs(MD, Last(MD'.click_times), Last(MD'.click_indices)),
                  RInt(50))
           /\ RLe(ClickResidualMs(MD, Last(MD'.click_times), Last(MD'.click_indices)),
                  RMul(MD.period, <<250, TicksPerSecond>>)) ]_vars

\* C6 witness: a click accepted off its beat (10 ms late)
C6_Witness ==
    /\ MD.locked
    /\ feed.step.branch = "post-lock"
    /\ feed.step.timing_is_click
    /\ Len(MD.click_times) > MIN_PERIODIC_ONSETS
    /\ Last(MD.click_times) = feed.step.time
    /\ \E i \in 1..Len(pipeline.note_events) :
          pipeline.note_events[i].time_seconds = feed.step.time
          /\ pipeline.note_events[i].deviation_ms # 0

\* The report that ends the outbox, if one does
FinalReport == Last(outbox)
HasReport == Len(outbox) > 0 /\ Last(outbox).type = "session_report"

\* C9: every note_event carries is_on_time = (|deviation_ms| <= threshold),
\* and the accuracy of a success report is the share of those note events.
C9_OnTimeFlagAndAccuracy ==
    /\ \A i \in 1..Len(outbox) :
          outbox[i].type = "note_event" =>
              (outbox[i].is_on_time <=>
                  Abs(outbox[i].deviation_ms) <= pipeline.timing_threshold_ms)
    /\ (HasReport /\ "stats" \in DOMAIN FinalReport) =>
          /\ FinalReport.stats.total_notes = Len(NoteEventsIn(outbox))
          /\ FinalReport.stats.accuracy_percent =
                PyRound(Rat(1000 * Len(SelectSeq(NoteEventsIn(outbox),
                                                 LAMBDA e : e.is_on_time)),
                            Len(NoteEventsIn(outbox))))

\* A note_event emitted right after the click_detected of the same onset
MergedNoteAt(i) ==
    /\ i > 1
    /\ outbox[i].type = "note_event"
    /\ outbox[i - 1].type = "click_detected"
    /\ outbox[i - 1].time = outbox[i].time

\* C9 witness: a success report after note events of both branches, some on
\* time and some not.
C9_Witness ==
    /\ HasReport
    /\ "stats" \in DOMAIN FinalReport
    /\ \E i \in 1..Len(outbox) : MergedNoteAt(i)
    /\ \E i \in 1..Len(outbox) : outbox[i].type = "note_event" /\ ~MergedNoteAt(i)
    /\ \E i \in 1..Len(outbox) : outbox[i].type = "note_event" /\ outbox[i].is_on_time
    /\ \E i \in 1..Len(outbox) : outbox[i].type = "note_event" /\ ~outbox[i].is_on_time


(***************************************************************************)
(* Properties of the scenarios (ScenarioSpec)                              *)
(***************************************************************************)
\* The number of onsets the pipeline has been handed
OnsetsHandled == pipeline.total_onset_count

\* The scenario of a metronome alone clicking every `period` ticks
MetronomeAlone(period) ==
    /\ "scenario" \in DOMAIN feed
    /\ feed.scenario.pattern = "metronome"
    /\ feed.scenario.period = period

\* C2: a 120 BPM metronome alone, first click at 0.5 s, no calibration: the
\* only grid_established comes with the fourth onset, right after its
\* click_detected, with bpm 120.0; every onset yields a click_detected and none
\* a note_event; the report at stop is the error "No guitar notes detected".
C2_MetronomeOnlyScenario ==
    (MetronomeAlone(1500) /\ feed.scenario.first = 1500 /\ feed.status # "raised") =>
        /\ Len(ClickEventsIn(outbox)) = OnsetsHandled
        /\ Len(NoteEventsIn(outbox)) = 0
        /\ Len(GridEventsIn(outbox)) = (IF OnsetsHandled >= 4 THEN 1 ELSE 0)
        /\ OnsetsHandled >= 4 =>
              /\ outbox[4].type = "click_detected" /\ outbox[4].time = 4 * 1500
              /\ outbox[5].type = "grid_established" /\ outbox[5].bpm = 1200
        /\ (feed.status = "reported" /\ OnsetsHandled >= 4) =>
              FinalReport = ErrorReport(<<"No guitar notes detected">>)

\* C2 witness: the report after the ten clicks at 0.5 s .. 5.0 s
C2_Witness ==
    /\ MetronomeAlone(1500) /\ feed.scenario.first = 1500
    /\ feed.status = "reported"
    /\ OnsetsHandled = 10
    /\ MD.onset_times = <<1500, 3000, 4500, 6000>>
    /\ Last(MD.click_times) = 15000

\* C7: four perfectly periodic onsets t0 + k P, with P in [0.25 s, 1.5 s],
\* lock the detector exactly on the fourth, with period P and bpm 60 / P.
C7_LockOnFourthPeriodicOnset ==
    \A P \in ScenarioPeriods :
        MetronomeAlone(P) =>
            /\ OnsetsHandled < 4 => ~MD.locked
            /\ OnsetsHandled = 4 =>
                  /\ MD.locked
                  /\ MD.period = RInt(P)
                  /\ MD.bpm = Rat(60 * TicksPerSecond, P)

\* C7 witness: the lock at 40 BPM, where P/2, P/3 and P/4 are valid periods
\* that align all four onsets as well
C7_Witness ==
    /\ MetronomeAlone(4500)
    /\ OnsetsHandled = 4
    /\ MD.locked
    /\ PeriodInRange(Rat(4500, 4))

\* C8: after exactly three periodic onsets the detector is not locked and
\* click_count is 3.
C8_ThreeOnsetsClickCount ==
    \A P \in ScenarioPeriods :
        (MetronomeAlone(P) /\ OnsetsHandled = 3) =>
            /\ ~MD.locked
            /\ click_count(MD) = 3

\* The guitar trails every click of a 90 BPM metronome by 20 ms
LateGuitarAt90 ==
    /\ "scenario" \in DOMAIN feed
    /\ feed.scenario.pattern = "late"
    /\ feed.scenario.period = 2000
    /\ feed.scenario.start = 0

\* C10: 90 BPM with the guitar 20 ms after each beat, threshold 30 ms: every
\* note_event is on time, and the report at stop has mean signed and mean
\* absolute deviations within 5 ms of 20 ms.
C10_LateGuitarMeans ==
    LateGuitarAt90 =>
        /\ \A i \in 1..Len(outbox) :
              outbox[i].type = "note_event" => outbox[i].is_on_time
        /\ (feed.status = "reported" /\ feed.played = Len(feed.script)) =>
              /\ "stats" \in DOMAIN FinalReport
              /\ Abs(FinalReport.stats.mean_signed_deviation_ms - 200) <= 50
              /\ Abs(FinalReport.stats.mean_absolute_deviation_ms - 200) <= 50

(***************************************************************************)
(* Properties of the session handler (SessionSpec)                         *)
(***************************************************************************)
\* C1: a session that ended without the peer going away has sent exactly one
\* session_report, as its last frame; no session ever sends two.
C1_ExactlyOneFinalReport ==
    /\ Len(ReportsIn(outbox)) <= 1
    /\ session.pc = "receiving" => Len(ReportsIn(outbox)) = 0
    /\ (session.pc = "closed" /\ ~session.disconnected) =>
          /\ Len(ReportsIn(outbox)) = 1
          /\ Last(outbox).type = "session_report"

\* C1 witness: the session closed by an exception in process_audio, after
\* events had been sent
C1_Witness ==
    /\ session.pc = "closed"
    /\ ~session.disconnected
    /\ pipeline # NoPipeline
    /\ pipeline.metronome_detector.locked
    /\ pipeline.metronome_detector.period = None
    /\ Last(outbox) = ServerError
    /\ Len(outbox) > 1

(***************************************************************************)
(* Properties of off-beat and on-beat playing                              *)
(***************************************************************************)
\* The guitar plays half a period after every click of a 100 BPM metronome,
\* from the fifth click on; the grid is locked at 100 BPM on the clicks.
OffbeatAt100 ==
    /\ "scenario" \in DOMAIN feed
    /\ feed.scenario.pattern = "offbeat"
    /\ feed.scenario.period = 1800
    /\ feed.scenario.start = 4
    /\ feed.scenario.grid_resolution = "8th"
    /\ feed.status # "raised"
    /\ MD.locked
    /\ MD.period = RInt(1800)
    /\ MD.reference_time = RInt(feed.scenario.first)

\* The onset handled last came half a period after a beat
LastOnsetOffbeat ==
    /\ feed.step.branch = "post-lock"
    /\ (feed.step.time - feed.scenario.first) % 1800 = 900

\* C11: with the grid locked at 100 BPM, resolution 8th and no calibration, an
\* onset half a period after a beat fails the click tolerance and is scored as
\* a note with deviation 0 on an 8th-note position; the report then has bpm
\* 100.0 and accuracy 100.0.
C11_OffbeatNotesOnGrid ==
    OffbeatAt100 =>
        /\ LastOnsetOffbeat =>
              /\ ~feed.step.timing_is_click
              /\ Len(pipeline.note_events) > 0
              /\ Last(pipeline.note_events).time_seconds = feed.step.time
              /\ Last(pipeline.note_events).deviation_ms = 0
              /\ Last(pipeline.note_events).nearest_grid_time = RInt(feed.step.time)
              /\ Last(pipeline.note_events).beat_position % 100 = 50
              /\ Last(outbox).type = "note_event" \/ HasReport
        /\ (feed.status = "reported" /\ Len(pipeline.note_events) > 0) =>
              /\ "stats" \in DOMAIN FinalReport
              /\ FinalReport.bpm = 1000
              /\ FinalReport.stats.accuracy_percent = 1000

\* C11 witness: the report after the off-beat notes of all ten beats
C11_Witness ==
    /\ OffbeatAt100
    /\ LastOnsetOffbeat
    /\ feed.played = Len(feed.script)
    /\ feed.status = "reported"
    /\ FinalReport.stats.total_notes >= 6

\* The events the outbox holds for the onset at time t
ClickSentAt(box, t) ==
    \E i \in 1..Len(box) : box[i].type = "click_detected" /\ box[i].time = t
NoteSentAt(box, t) ==
    \E i \in 1..Len(box) : box[i].type = "note_event" /\ box[i].time = t

\* No calibration, and every onset so far came on a beat of a 240 BPM click
AllOnsetsOnTheBeat ==
    /\ ~Truthy(pipeline.calibration)
    /\ \A i \in 1..Len(outbox) :
          "time" \in DOMAIN outbox[i] => outbox[i].time % 750 = 0

OnBeatMeansNoNotes ==
    AllOnsetsOnTheBeat =>
        /\ Len(NoteEventsIn(outbox)) = 0
        /\ Len(pipeline.note_events) = 0
        /\ (feed.status = "reported" /\ MD.locked) =>
              FinalReport = ErrorReport(<<"No guitar notes detected">>)

\* C12: an onset classified as a click yields a note_event only if a note is
\* already on record and the onset is less than two periods after the last
\* one; so the first note_event of a run comes from an onset that is not a
\* click, and with no calibration and every onset on the beat there is never a
\* note_event and the report is the error "No guitar notes detected".
C12_MergedNoteNeedsRecentNote ==
    [][ /\ ( /\ feed'.step.branch = "post-lock"
             /\ Len(outbox') > Len(outbox)
             /\ ClickSentAt(outbox', feed'.step.time)
             /\ NoteSentAt(outbox', feed'.step.time) )
           => /\ Len(pipeline.note_events) > 0
              /\ RLt(RInt(feed'.step.time - Last(pipeline.note_events).time_seconds),
                     RMul(MD'.period, RInt(2)))
        /\ (Len(pipeline.note_events) = 0 /\ Len(pipeline'.note_events) > 0)
           => ~ClickSentAt(outbox', feed'.step.time)
        /\ OnBeatMeansNoNotes' ]_vars

\* C12 witness: a click that carried a note, one period after an off-beat
\* note started the playing
C12_Witness ==
    /\ feed.step.branch = "post-lock"
    /\ feed.status = "running"
    /\ ClickSentAt(outbox, feed.step.time)
    /\ NoteSentAt(outbox, feed.step.time)
    /\ Len(pipeline.note_events) >= 2
    /\ ~Truthy(pipeline.calibration)

(***************************************************************************)
(* Properties of the report                                                *)
(***************************************************************************)
IsErrorReport(r) == r.type = "session_report" /\ "error" \in DOMAIN r
IsSuccessReport(r) ==
    /\ r.type = "session_report"
    /\ "error" \notin DOMAIN r
    /\ "stats" \in DOMAIN r
    /\ "metronome_stats" \in DOMAIN r

\* C14: generate_report returns "No audio recorded" for an empty buffer;
\* otherwise, if the detector never locked, an error with the onset count and
\* click_count; otherwise "No guitar notes detected" if no note was recorded;
\* and in every other state a success report with stats and metronome_stats.
C14_ReportErrorCasesInOrder ==
    feed.status = "reported" =>
        IF pipeline.audio_buffer = 0
        THEN FinalReport = ErrorReport(<<"No audio recorded">>)
        ELSE IF ~MD.locked
        THEN /\ IsErrorReport(FinalReport)
             /\ FinalReport.error[1] = "No metronome detected"
             /\ FinalReport.error[2] = pipeline.total_onset_count
             /\ FinalReport.error[3] = click_count(MD)
        ELSE IF Len(NoteEventsIn(outbox)) = 0
        THEN FinalReport = ErrorReport(<<"No guitar notes detected">>)
        ELSE /\ IsSuccessReport(FinalReport)
             /\ FinalReport.stats.total_notes = Len(NoteEventsIn(outbox))

\* C14 witness: the report of a run in which the search ran and found no grid
C14_Witness ==
    /\ feed.status = "reported"
    /\ pipeline.audio_buffer > 0
    /\ ~MD.locked
    /\ pipeline.total_onset_count >= MIN_PERIODIC_ONSETS
    /\ IsErrorReport(FinalReport)

(***************************************************************************)
(* Frame by frame properties of the session handler (SessionSpec)          *)
(***************************************************************************)
\* The step is the handling of one frame of the given kind
FrameStep(kind) == feed'.frames = feed.frames + 1 /\ feed'.frame = kind

\* C13 as stated: a misaligned audio frame changes nothing in the handler
\* and sends nothing.
C13_MisalignedChangesNothing ==
    [][FrameStep("misaligned audio") =>
          /\ session' = session
          /\ pipeline' = pipeline
          /\ outbox' = outbox]_vars

\* C13: a misaligned audio frame sends nothing and leaves the pipeline, the
\* staging buffer, the calibration step and rate and the handler's position
\* as they were; it does count as an audio message.
C13_MisalignedOnlyCounted ==
    [][FrameStep("misaligned audio") =>
          /\ pipeline' = pipeline
          /\ outbox' = outbox
          /\ session'.cal_buffer = session.cal_buffer
          /\ session'.cal_step = session.cal_step
          /\ session'.cal_sample_rate = session.cal_sample_rate
          /\ session'.pc = session.pc
          /\ session'.disconnected = session.disconnected
          /\ session'.audio_msg_count = session.audio_msg_count + 1]_vars

\* C13 witness: a misaligned frame was the last one handled, during a
\* calibration that has staged audio, with a session pipeline in place
C13_Witness ==
    /\ feed.frame = "misaligned audio"
    /\ session.pc = "receiving"
    /\ session.cal_buffer # None
    /\ session.cal_buffer.samples > 0
    /\ pipeline # NoPipeline
    /\ pipeline.audio_buffer > 0
    /\ session.audio_msg_count > 1

\* C15 as stated: the report a stop is answered with is the one that a
\* successful write of the session recording would have given.
C15_WriteFailureKeepsReport ==
    (/\ feed.frame = "stop"
     /\ session.pc = "closed"
     /\ pipeline # NoPipeline) =>
        Last(outbox) = generate_report(pipeline, FALSE).report

\* C16 as stated: stop_calibration over a staged recording without onsets is
\* answered with a calibration_result that carries an error.
C16_NoOnsetsIsAnError ==
    [][(/\ FrameStep("stop_calibration")
        /\ session.cal_buffer # None
        /\ session.cal_buffer.samples > 0
        /\ session.cal_buffer.onsets = 0) =>
          /\ Last(outbox').type = "calibration_result"
          /\ "error" \in DOMAIN Last(outbox')
          /\ "profile" \notin DOMAIN Last(outbox')]_vars

\* C17: an audio frame goes to the staging buffer while one is open, and
\* then leaves the pipeline alone and sends nothing; otherwise it goes to
\* the pipeline if there is one and is dropped if there is none. The staging
\* buffer is opened by calibrate, closed by stop_calibration and by nothing
\* else.
C17_AudioRouting ==
    [][ /\ (FrameStep("audio") /\ session.cal_buffer # None) =>
              /\ session'.cal_buffer # None
              /\ session'.cal_buffer.samples > session.cal_buffer.samples
              /\ pipeline' = pipeline
              /\ outbox' = outbox
        /\ (FrameStep("audio") /\ session.cal_buffer = None
                               /\ pipeline # NoPipeline) =>
              /\ pipeline'.audio_buffer > pipeline.audio_buffer
              /\ session'.cal_buffer = None
        /\ (FrameStep("audio") /\ session.cal_buffer = None
                               /\ pipeline = NoPipeline) =>
              /\ pipeline' = NoPipeline
              /\ outbox' = outbox
              /\ session'.cal_buffer = None
        /\ FrameStep("calibrate") => session'.cal_buffer = EmptyCalBuffer
        /\ FrameStep("stop_calibration") => session'.cal_buffer = None
        /\ (feed'.frame \notin {"calibrate", "stop_calibration", "audio"}
            /\ feed'.frames = feed.frames + 1) =>
              session'.cal_buffer = session.cal_buffer ]_vars

\* C17 witness: audio was staged for a calibration begun in the middle of a
\* session that had already taken audio and sent events
C17_Witness ==
    /\ feed.frame = "audio"
    /\ session.pc = "receiving"
    /\ session.cal_buffer # None
    /\ session.cal_buffer.samples > 0
    /\ pipeline # NoPipeline
    /\ pipeline.audio_buffer > 0
    /\ Last(outbox).type = "calibration_started"
    /\ Len(NoteEventsIn(outbox)) + Len(ClickEventsIn(outbox)) > 0

\* C18 as stated: a control frame without a type leaves the handler as it
\* was and sends nothing.
C18_UntypedControlIgnored ==
    [][FrameStep("control without type") =>
          /\ session' = session
          /\ pipeline' = pipeline
          /\ outbox' = outbox]_vars

(***************************************************************************)
(* The grid aligner on its own (GridSpec): compute_deviation on a grid     *)
(* configuration and an onset time, and again on the grid time it returned *)
(***************************************************************************)
\* Onset times run from -125 * MaxGridSteps to 125 * MaxGridSteps ticks
MaxGridSteps == 100

GridOnsets == {125 * k : k \in (0 - MaxGridSteps)..MaxGridSteps}

\* 120, 90 and 87.5 beats per minute; references on and off a whole tick
GridConfigs ==
    {GridConfig(bpm, r, ref) :
        bpm \in {RInt(120), RInt(90), Rat(175, 2)},
        r \in {"8th", "16th"},
        ref \in {RInt(0), RInt(1500), Rat(2501, 3)}}

NoDeviation == <<>>

GridInit ==
    /\ pipeline = NoPipeline
    /\ outbox = <<>>
    /\ session = IdleSession
    /\ detectors = NoDetectors
    /\ \E gc \in GridConfigs :
         feed = [grid_config |-> gc, onset_time |-> None,
                 first |-> NoDeviation, again |-> NoDeviation]

\* compute_deviation(onset_time), on one onset per behaviour
Snap ==
    /\ feed.first = NoDeviation
    /\ \E t \in GridOnsets :
         feed' = [feed EXCEPT !.onset_time = RInt(t),
                              !.first = compute_deviation(feed.grid_config, RInt(t)),
                              !.again = NoDeviation]
    /\ UNCHANGED <<pipeline, outbox, session, detectors>>

\* compute_deviation(nearest_grid_time) of the result just returned
SnapAgain ==
    /\ feed.first # NoDeviation
    /\ feed.again = NoDeviation
    /\ feed' = [feed EXCEPT !.again =
                   compute_deviation(feed.grid_config, feed.first.nearest_grid_time)]
    /\ UNCHANGED <<pipeline, outbox, session, detectors>>

GridNext == Snap \/ SnapAgain

GridSpec == GridInit /\ [][GridNext]_vars

\* C19: compute_deviation of the grid time that compute_deviation returned
\* has deviation 0 and the same grid time, bar and beat position.
C19_IdempotentOnGridTime ==
    ("again" \in DOMAIN feed /\ feed.again # NoDeviation) =>
        /\ feed.again.deviation_ms = 0
        /\ feed.again.nearest_grid_time = feed.first.nearest_grid_time
        /\ feed.again.bar = feed.first.bar
        /\ feed.again.beat_position = feed.first.beat_position

\* C19 witness: an onset before the reference and off the grid, whose grid
\* time is not a whole number of ticks, was snapped and snapped again
C19_Witness ==
    /\ "again" \in DOMAIN feed
    /\ feed.again # NoDeviation
    /\ feed.first.deviation_ms # 0
    /\ feed.first.grid_index < 0
    /\ feed.first.nearest_grid_time[2] # 1
    /\ feed.grid_config.reference_time # RInt(0)

\* C20: the bar is the floor of k over the subdivisions of a bar, plus one;
\* the position in the bar lies in [0, subdivisions per bar); so a negative
\* k has a bar <= 0 and the beat position lies in [1, 5).  k is the index of
\* the grid point nearest to the onset.
C20_FloorBarNumbering ==
    ("first" \in DOMAIN feed /\ feed.first # NoDeviation) =>
        LET d == feed.first
            k == d.grid_index
            spb == IF feed.grid_config.grid_resolution = "16th" THEN 4 ELSE 2
            spbar == 4 * spb
            position == k - (d.bar - 1) * spbar
            interval == RDiv(RDiv(RInt(60 * TicksPerSecond), feed.grid_config.bpm),
                             RInt(spb))
        IN  /\ d.nearest_grid_time =
                   RAdd(feed.grid_config.reference_time, RMul(RInt(k), interval))
            /\ RLe(RMul(RInt(2), RAbs(RSub(feed.onset_time, d.nearest_grid_time))),
                   interval)
            /\ (d.bar - 1) * spbar <= k
            /\ k < d.bar * spbar
            /\ position >= 0
            /\ position < spbar
            /\ (d.beat_position - 100) * spb = 100 * position
            /\ k < 0 => d.bar <= 0
            /\ d.beat_position >= 100
            /\ d.beat_position < 500

\* C20 witness: an onset more than a bar before the reference, snapped to
\* the last subdivision of bar -1
C20_Witness ==
    /\ "first" \in DOMAIN feed
    /\ feed.first # NoDeviation
    /\ feed.first.grid_index = 0 - 9
    /\ feed.grid_config.grid_resolution = "8th"
    /\ feed.first.bar = 0 - 1
    /\ feed.first.beat_position = 450
    /\ feed.first.deviation_ms # 0

(***************************************************************************)
(* The metronome detector on its own (TrackSpec): a detector locked on     *)
(* four evenly spaced onsets, then track_onset on onsets near the beat and *)
(* on onsets half way between two beats                                    *)
(***************************************************************************)
MaxTracks == 6
MaxHalfBeat == 6

\* 240, 180, 100 and 40 beats per minute, in ticks
TrackPeriods == {750, 1000, 1800, 4500}

\* How far from a whole period after the last onset the next one comes
TrackShifts == {0 - 30, 0, 30}

RECURSIVE AddOnsets(_, _)
AddOnsets(md, times) ==
    IF Len(times) = 0 THEN md
    ELSE AddOnsets(add_onset(md, Head(times)).md, Tail(times))

\* The detector after MIN_PERIODIC_ONSETS onsets one period apart
LockedOn(period, first) ==
    AddOnsets(NewDetector,
              [i \in 1..MIN_PERIODIC_ONSETS |-> first + (i - 1) * period])

TrackInit ==
    /\ pipeline = NoPipeline
    /\ outbox = <<>>
    /\ session = IdleSession
    /\ detectors = NoDetectors
    /\ \E period \in TrackPeriods :
         \E md \in {LockedOn(period, 300)} :
           feed = [md |-> md, before |-> md, call |-> "none", onset_time |-> 0,
                   ret |-> FALSE, nominal |-> period,
                   last |-> Last(md.onset_times), tracks |-> 0]

\* track_onset on an onset about one period after the last one
TrackNearBeat ==
    /\ feed.tracks < MaxTracks
    /\ \E shift \in TrackShifts :
         \E r \in {track_onset(feed.md, feed.last + feed.nominal + shift)} :
           feed' = [feed EXCEPT !.md = r.md, !.before = feed.md,
                                !.call = "near beat",
                                !.onset_time = feed.last + feed.nominal + shift,
                                !.ret = r.ret,
                                !.last = feed.last + feed.nominal + shift,
                                !.tracks = @ + 1]
    /\ UNCHANGED <<pipeline, outbox, session, detectors>>

\* reference_time + (n + 0.5) * period
HalfBeatTime(md, n) ==
    RAdd(md.reference_time, RMul(md.period, Rat(2 * n + 1, 2)))

\* track_onset on an onset half way between beats n and n + 1, where that
\* time is a whole number of ticks
TrackHalfBeat ==
    /\ feed.call # "half beat"
    /\ \E n \in (0 - MaxHalfBeat)..MaxHalfBeat :
         \E t \in {HalfBeatTime(feed.md, n)} :
           /\ t[2] = 1
           /\ \E r \in {track_onset(feed.md, t[1])} :
                feed' = [feed EXCEPT !.md = r.md, !.before = feed.md,
                                     !.call = "half beat",
                                     !.onset_time = t[1],
                                     !.ret = r.ret]
    /\ UNCHANGED <<pipeline, outbox, session, detectors>>

TrackNext == TrackNearBeat \/ TrackHalfBeat

TrackSpec == TrackInit /\ [][TrackNext]_vars

\* C21: an onset half way between two beats of a locked detector has a
\* tracking error of 500 * period ms (period in seconds), which is above the
\* tolerance; track_onset returns false and leaves the click history alone.
C21_HalfBeatIsNoClick ==
    ("call" \in DOMAIN feed /\ feed.call = "half beat") =>
        /\ TrackErrorMs(feed.before, feed.onset_time) =
              RDiv(RMul(RInt(500), feed.before.period), RInt(TicksPerSecond))
        /\ RLt(TrackToleranceMs(feed.before.period),
               TrackErrorMs(feed.before, feed.onset_time))
        /\ ~feed.ret
        /\ feed.md.click_times = feed.before.click_times
        /\ feed.md.click_indices = feed.before.click_indices
        /\ feed.md.clicks_since_refit = feed.before.clicks_since_refit

\* C21 witness: a half-beat onset before the reference of a detector whose
\* period a refit has moved off the one it locked on
C21_Witness ==
    /\ "call" \in DOMAIN feed
    /\ feed.call = "half beat"
    /\ feed.before.locked
    /\ feed.before.period # RInt(feed.nominal)
    /\ RLt(RInt(feed.onset_time), feed.before.reference_time)
    /\ Len(feed.before.click_times) >= 2 * MIN_PERIODIC_ONSETS
    /\ ~feed.ret


\* The two normal equations of the least-squares line time = r + index * p
NormalEquations(p, r, k, t) ==
    /\ RSub(RSub(RInt(SumSeq(t)), RMul(RInt(Len(k)), r)),
            RMul(RInt(SumSeq(k)), p)) = RInt(0)
    /\ RSub(RSub(RInt(SumProd(k, t)), RMul(RInt(SumSeq(k)), r)),
            RMul(RInt(SumProd(k, k)), p)) = RInt(0)

\* The slope of that line
SlopeOf(k, t) ==
    Rat(Len(k) * SumProd(k, t) - SumSeq(k) * SumSeq(t),
        Len(k) * SumProd(k, k) - SumSeq(k) * SumSeq(k))

SlopeInRange(k, t) ==
    /\ RLe(RInt(250 * TicksPerMs), SlopeOf(k, t))
    /\ RLe(SlopeOf(k, t), RInt(1500 * TicksPerMs))

SameGrid(pre, post) ==
    /\ post.period = pre.period
    /\ post.reference_time = pre.reference_time
    /\ post.bpm = pre.bpm

\* C27: track_onset refits exactly when the accepted click is the fourth
\* since the last refit, and then resets the counter; a fit whose period is
\* within [0.25 s, 1.5 s] replaces period, reference and bpm = 60 / period
\* together, any other fit leaves all three as they were; the counter stays
\* within 0..3.
C27_RefitEveryFourthClick ==
    ("call" \in DOMAIN feed) =>
        /\ feed.md.clicks_since_refit \in 0..(REFIT_INTERVAL - 1)
        /\ (feed.call # "none" /\ ~feed.ret) => feed.md = feed.before
        /\ (feed.call # "none" /\ feed.ret) =>
              /\ feed.md.click_times =
                    Append(feed.before.click_times, feed.onset_time)
              /\ Len(feed.md.click_indices) = Len(feed.md.click_times)
              /\ IF feed.before.clicks_since_refit + 1 = REFIT_INTERVAL
                 THEN /\ feed.md.clicks_since_refit = 0
                      /\ IF SlopeInRange(feed.md.click_indices, feed.md.click_times)
                         THEN /\ NormalEquations(feed.md.period,
                                                 feed.md.reference_time,
                                                 feed.md.click_indices,
                                                 feed.md.click_times)
                              /\ RMul(feed.md.bpm, feed.md.period) =
                                     RInt(60 * TicksPerSecond)
                         ELSE SameGrid(feed.before, feed.md)
                 ELSE /\ feed.md.clicks_since_refit =
                            feed.before.clicks_since_refit + 1
                      /\ SameGrid(feed.before, feed.md)

\* C27 witness: the fourth click since the lock was accepted and the refit
\* over the eight clicks gave a period outside the range
C27_Witness ==
    /\ "call" \in DOMAIN feed
    /\ feed.call = "near beat"
    /\ feed.ret
    /\ feed.before.clicks_since_refit = REFIT_INTERVAL - 1
    /\ feed.md.clicks_since_refit = 0
    /\ Len(feed.md.click_times) = 2 * MIN_PERIODIC_ONSETS
    /\ ~SlopeInRange(feed.md.click_indices, feed.md.click_times)
    /\ SameGrid(feed.before, feed.md)


(***************************************************************************)
(* A metronome that slows down by 1 ms per beat (ScenarioSpec)             *)
(***************************************************************************)
DriftingRun ==
    /\ "scenario" \in DOMAIN feed
    /\ feed.scenario.pattern = "drifting"
    /\ feed.status # "raised"
    /\ MD.locked

\* drift_ms_per_beat within 0.3 of 1 ms per beat, in hundredths of a ms
NearTrueDrift(stats) ==
    /\ "drift_ms_per_beat" \in DOMAIN stats
    /\ Abs(stats.drift_ms_per_beat - 100) <= 30

\* C23 as stated: every click of the drifting metronome after the lock is
\* tracked as a click, and after the twenty clicks the drift in the
\* metronome statistics is within 0.3 of 1 ms per beat.
C23_DriftTrackedAndMeasured ==
    DriftingRun =>
        /\ feed.step.branch = "post-lock" => feed.step.timing_is_click
        /\ Len(pipeline.note_events) = 0
        /\ feed.played = Len(feed.script) =>
              NearTrueDrift(compute_metronome_stats(pipeline))
        /\ (feed.status = "reported" /\ "metronome_stats" \in DOMAIN FinalReport) =>
              NearTrueDrift(FinalReport.metronome_stats)


(***************************************************************************)
(* The gate of the onset detector, frame by frame (GateSpec): chunks of    *)
(* one frame, and chunks of six segments of 512 samples (eleven frames),   *)
(* with a log of what every frame of the loop saw and did                  *)
(***************************************************************************)
MaxSegments == 10

\* Silence, a signal just loud enough to cross the minimum threshold, and a
\* loud signal
GateLevels == {0, 34, 3000}

\* The chunks of n segments of FrameBlocks blocks, each segment at one level
SegmentChunks(levels, n) ==
    { [i \in 1..(n * FrameBlocks) |-> f[((i - 1) \div FrameBlocks) + 1]] :
        f \in [1..n -> levels] }

\* Chunks of one segment at any level, chunks of six quiet or silent segments
GateChunks(n) ==
    IF n = 1 THEN SegmentChunks(GateLevels, 1) ELSE SegmentChunks({0, 34}, n)

\* What the frame at block b saw (smoothed_rms and the threshold it was
\* compared with, the gate before) and did (the gate after, the onset
\* reported).  st is the loop state before the frame, nx after it.
FrameRecord(st, nx, b) ==
    [ time |-> st.det.total_samples + b * BLOCK,
      smoothed_rms |-> nx.det.smoothed_rms,
      threshold |-> Threshold(st.det),
      above_before |-> st.det.above_threshold,
      above_after |-> nx.det.above_threshold,
      reported |-> Len(nx.onsets) > Len(st.onsets) ]

\* The frame loop of process_chunk, keeping the log
RECURSIVE LogLoop(_, _, _, _)
LogFrame(st, nx, chunk, b, log) ==
    LogLoop(nx, chunk, b + HopBlocks, Append(log, FrameRecord(st, nx, b)))

LogLoop(st, chunk, b, log) ==
    IF b + FrameBlocks > Len(chunk) THEN log
    ELSE LogFrame(st, ProcessFrame(st, FrameRms(chunk, b), b), chunk, b, log)

GateInit ==
    /\ detectors = [det |-> PipelineOnsetDetector, onsets |-> <<>>]
    /\ feed = [segments |-> 0, chunks |-> 0, frames |-> <<>>, ends |-> <<>>]
    /\ pipeline = NoPipeline
    /\ outbox = <<>>
    /\ session = IdleSession

\* process_chunk on the next chunk.  feed.frames is the log of all frames so
\* far and feed.ends the length of the log after each chunk.
GateChunk ==
    /\ \E n \in {1, 6} :
       /\ feed.segments + n <= MaxSegments
       /\ \E chunk \in GateChunks(n) :
         /\ \E r \in {process_chunk(detectors.det, chunk)} :
              detectors' = [det |-> r.det, onsets |-> detectors.onsets \o r.onsets]
         /\ \E log \in {LogLoop([det |-> detectors.det, onsets |-> <<>>],
                                chunk, 0, feed.frames)} :
              feed' = [segments |-> feed.segments + (Len(chunk) \div FrameBlocks),
                       chunks |-> feed.chunks + 1,
                       frames |-> log,
                       ends |-> Append(feed.ends, Len(log))]
    /\ UNCHANGED <<pipeline, outbox, session>>

GateNext == GateChunk

GateSpec == GateInit /\ [][GateNext]_vars

\* A frame that saw smoothed_rms above the threshold with the gate open
IsRisingEdge(f) == f.smoothed_rms > f.threshold /\ ~f.above_before

\* A frame that saw smoothed_rms below 0.4 of the threshold
IsRearming(f) == 10 * f.smoothed_rms < 4 * f.threshold

ReportedFrames == SelectSeq(feed.frames, LAMBDA f : f.reported)

\* C26: an onset is reported only on a rising edge; every rising edge closes
\* the gate, reported or not; only a frame below 0.4 of the threshold opens
\* it; so between two reported onsets there is a re-arming frame, and the
\* onsets reported, within a chunk or across chunks, increase and are at
\* least 50 ms (min_interval samples) apart.
C26_GateAndMinInterval ==
    ("frames" \in DOMAIN feed /\ "ends" \in DOMAIN feed) =>
        /\ \A i \in 1..Len(feed.frames) :
              /\ feed.frames[i].reported => IsRisingEdge(feed.frames[i])
              /\ IsRisingEdge(feed.frames[i]) => feed.frames[i].above_after
              /\ (~feed.frames[i].above_before /\ feed.frames[i].above_after) =>
                    IsRisingEdge(feed.frames[i])
              /\ (feed.frames[i].above_before /\ ~feed.frames[i].above_after) =>
                    IsRearming(feed.frames[i])
              /\ i > 1 => feed.frames[i].above_before = feed.frames[i - 1].above_after
        /\ \A i, j \in 1..Len(feed.frames) :
              (i < j /\ feed.frames[i].reported /\ feed.frames[j].reported) =>
                 /\ \E k \in (i + 1)..(j - 1) :
                       /\ IsRearming(feed.frames[k])
                       /\ ~feed.frames[k].above_after
                 /\ feed.frames[j].time - feed.frames[i].time
                       >= detectors.det.min_interval
        /\ detectors.onsets =
              [n \in 1..Len(ReportedFrames) |-> ReportedFrames[n].time]
        /\ \A n \in 1..(Len(detectors.onsets) - 1) :
              /\ detectors.onsets[n] < detectors.onsets[n + 1]
              /\ 20 * (detectors.onsets[n + 1] - detectors.onsets[n]) >= SAMPLE_RATE

\* C26 witness: an onset, a rising edge within 50 ms of it that was not
\* reported, and a later onset in another chunk
C26_Witness ==
    /\ "frames" \in DOMAIN feed
    /\ Len(detectors.onsets) >= 2
    /\ \E i, j, k \in 1..Len(feed.frames) :
          /\ i < j /\ j < k
          /\ feed.frames[i].reported
          /\ IsRisingEdge(feed.frames[j]) /\ ~feed.frames[j].reported
          /\ feed.frames[k].reported


(***************************************************************************)
(* The post-lock decision, the undo, the grid configuration and the lock   *)
(***************************************************************************)
\* The events the step from this state to the next one put on the outbox
NewEvents == SubSeq(outbox', Len(outbox) + 1, Len(outbox'))

\* The step handled an onset after the lock
PostLockStep ==
    /\ pipeline'.total_onset_count = pipeline.total_onset_count + 1
    /\ feed'.step.branch = "post-lock"

\* The step took the click branch for its onset: it emitted click_detected
TreatedAsClick ==
    \E i \in 1..Len(NewEvents) :
        /\ NewEvents[i].type = "click_detected"
        /\ NewEvents[i].time = feed'.step.time

\* The step took the note branch for its onset: it scored it and nothing else
TreatedAsNote ==
    /\ Len(NewEvents) = 1
    /\ NewEvents[1].type = "note_event"
    /\ NewEvents[1].time = feed'.step.time
    /\ Len(pipeline'.note_events) = Len(pipeline.note_events) + 1

ClickHistoryUntouched ==
    /\ MD'.click_times = MD.click_times
    /\ MD'.click_indices = MD.click_indices
    /\ MD'.clicks_since_refit = MD.clicks_since_refit
    /\ MD'.period = MD.period
    /\ MD'.reference_time = MD.reference_time

OneProfileMissing(calibration) ==
    /\ calibration # None
    /\ calibration.metronome # calibration.guitar

\* C24: after the lock an onset is treated as a click exactly when track_onset
\* returned true and either there is no calibration record or the spectral
\* class is click; otherwise it is treated as a note, and when timing says
\* non-click while the spectrum says click the click history is untouched.
\* With a calibration record that lacks one of the two profiles no post-lock
\* onset is treated as a click.
C24_PostLockDecision ==
    [][ PostLockStep =>
          /\ TreatedAsClick <=>
               /\ feed'.step.timing_is_click
               /\ \/ ~Truthy(pipeline.calibration)
                  \/ feed'.step.spectral_class = "click"
          /\ ~TreatedAsClick => TreatedAsNote
          /\ (~feed'.step.timing_is_click /\ feed'.step.spectral_class = "click")
                => TreatedAsNote /\ ClickHistoryUntouched
          /\ OneProfileMissing(pipeline.calibration) => ~TreatedAsClick ]_vars

\* C24 has happened: timing said non-click, the spectrum said click, and the
\* onset was scored as a note
C24_Witness ==
    /\ feed.step.branch = "post-lock"
    /\ ~feed.step.timing_is_click
    /\ feed.step.spectral_class = "click"
    /\ Len(outbox) > 0
    /\ Last(outbox).type = "note_event"
    /\ Last(outbox).time = feed.step.time

\* The spectral override fired for the onset of this step
OverrideStep ==
    /\ PostLockStep
    /\ feed'.step.timing_is_click
    /\ feed'.step.spectral_class = "guitar"

\* C25 as stated: when the spectral override fires, the undo leaves
\* click_times, click_indices, clicks_since_refit, period and reference_time
\* equal to their values before the onset, also when the overridden onset was
\* the fourth click since the last refit.
C25_UndoRestoresDetector ==
    [][ OverrideStep => ClickHistoryUntouched ]_vars

\* The grid configuration carries the detector's tempo and reference
GridAgrees(p) ==
    /\ p.grid_config # None
    /\ p.grid_config.bpm = p.metronome_detector.bpm
    /\ p.grid_config.reference_time = p.metronome_detector.reference_time
    /\ p.grid_config.grid_resolution = p.grid_resolution

\* The note scored by this step was measured on the grid the step ends with
ScoredOnFinalGrid ==
    Len(pipeline'.note_events) > Len(pipeline.note_events) =>
        Last(pipeline'.note_events) =
            NoteOf(feed'.step.time,
                   compute_deviation(pipeline'.grid_config, RInt(feed'.step.time)))

PreLockStep ==
    /\ pipeline'.total_onset_count = pipeline.total_onset_count + 1
    /\ feed'.step.branch = "pre-lock"

\* The positions of grid_established on the outbox
GridEstablishedAt == { i \in 1..Len(outbox) : outbox[i].type = "grid_established" }

\* C29 as stated: the lock is one-way: a locked detector stays locked, a pipeline emits
\* at most one grid_established, it comes immediately after the click_detected
\* of the onset that caused the lock, no note_event comes before it, and
\* before the lock every onset yields exactly one click_detected.
C29_LockIsOneWay ==
    /\ [][ MD.locked => MD'.locked ]_vars
    /\ [](/\ Cardinality(GridEstablishedAt) <= 1
          /\ \A i \in GridEstablishedAt :
                /\ i > 1
                /\ outbox[i - 1].type = "click_detected"
                /\ outbox[i - 1].time = Last(MD.onset_times)
                /\ \A j \in 1..i : outbox[j].type # "note_event"
          /\ GridEstablishedAt = {} =>
                \A j \in 1..Len(outbox) : outbox[j].type # "note_event")
    /\ [][ PreLockStep =>
             /\ Len(NewEvents) >= 1
             /\ NewEvents[1] = ClickEvent(feed'.step.time, click_count(MD'),
                                          pipeline'.total_onset_count)
             /\ \A i \in 2..Len(NewEvents) : NewEvents[i].type # "click_detected"
             /\ IF ~MD.locked /\ MD'.locked
                THEN /\ Len(NewEvents) = 2
                     /\ NewEvents[2] = GridEstablishedEvent(MD')
                ELSE Len(NewEvents) = 1 ]_vars

\* The clicks recorded when the detector locked
LockClicks(md) == SubSeq(md.click_times, 1, MIN_PERIODIC_ONSETS)

\* C30: a locked pipeline always has at least four click times: the undo of a
\* spectral override removes only the entry its own onset appended, never a
\* click recorded at the lock or earlier, so a success report never carries
\* the "Too few clicks for analysis" entry in metronome_stats.
C30_LockedKeepsFourClicks ==
    /\ [](MD.locked => /\ Len(MD.click_times) >= MIN_PERIODIC_ONSETS
                       /\ Len(MD.click_indices) = Len(MD.click_times))
    /\ [][ OverrideStep => /\ MD'.click_times = MD.click_times
                           /\ MD'.click_indices = MD.click_indices ]_vars
    /\ [][ PostLockStep =>
             /\ LockClicks(MD') = LockClicks(MD)
             /\ \/ MD'.click_times = MD.click_times
                \/ MD'.click_times = Append(MD.click_times, feed'.step.time) ]_vars
    /\ []((HasReport /\ IsSuccessReport(FinalReport)) =>
             /\ "error" \notin DOMAIN FinalReport.metronome_stats
             /\ FinalReport.metronome_stats.total_clicks >= MIN_PERIODIC_ONSETS)

\* C30 has happened: a spectral override was undone right after the lock, the
\* four clicks of the lock are all that is left, and the success report
\* carries their statistics
C30_Witness ==
    /\ HasReport
    /\ IsSuccessReport(FinalReport)
    /\ feed.step.branch = "post-lock"
    /\ feed.step.timing_is_click
    /\ feed.step.spectral_class = "guitar"
    /\ Len(MD.click_times) = MIN_PERIODIC_ONSETS
    /\ FinalReport.metronome_stats.total_clicks = MIN_PERIODIC_ONSETS
    /\ "expected_interval_ms" \in DOMAIN FinalReport.metronome_stats

(***************************************************************************)
(* A pipeline that hears stray onsets before it locks                      *)
(***************************************************************************)
MaxStray == 7

\* Gaps between consecutive onsets before the lock, in ticks: 50 ms (the
\* shortest gap the onset detector lets through), 250 ms and 475 ms.  After
\* the lock an onset follows the last one by 250 ms or 500 ms.
StrayGaps == {150, 750, 1425}
SteadyGaps == {750, 1500}

StrayInit ==
    /\ \E c \in {None, [metronome |-> TRUE, guitar |-> TRUE]} :
         pipeline = NewPipeline("8th", 300, c)
    /\ outbox = <<>>
    /\ session = IdleSession
    /\ feed = [status |-> "running", last |-> 0, step |-> NoStep, fed |-> 0]
    /\ detectors = NoDetectors

\* process_audio on a chunk in which the onset detector finds one onset
FeedOnset ==
    /\ feed.status = "running"
    /\ feed.fed < MaxStray
    /\ \E g \in (IF is_grid_established(pipeline) THEN SteadyGaps ELSE StrayGaps) :
         \E w \in WindowsAt(pipeline, g) :
           \E r \in {process_audio(pipeline, OneOnsetChunk(pipeline, feed.last + g, w))} :
             /\ pipeline' = r.p
             /\ outbox' = IF r.raised THEN outbox ELSE outbox \o r.events
             /\ feed' = [status |-> IF r.raised THEN "raised" ELSE "running",
                         last |-> feed.last + g,
                         step |-> StepOf(pipeline, feed.last + g, w),
                         fed |-> feed.fed + 1]
    /\ UNCHANGED <<session, detectors>>

StrayNext == FeedOnset

StraySpec == StrayInit /\ [][StrayNext]_vars

\* C32 as stated: in every locked state click_indices is strictly increasing:
\* no two recorded clicks share a beat index, whether they come from the
\* aligned set of the lock or were appended by track_onset.
C32_ClickIndicesStrictlyIncrease ==
    MD.locked => StrictlyIncreasing(MD.click_indices)

\* The click_detected events on the outbox from the one of the lock on
ClicksFromLock ==
    SelectSeq(SubSeq(outbox,
                     IF GridEstablishedAt = {} THEN Len(outbox) + 1
                     ELSE (CHOOSE i \in GridEstablishedAt : TRUE) - 1,
                     Len(outbox)),
              LAMBDA e : e.type = "click_detected")

\* What the search of this step found: the count of the best aligned set when
\* add_onset got as far as searching, the count of the search before otherwise
LatestSearchCount ==
    IF Len(MD'.onset_times) >= MIN_PERIODIC_ONSETS
    THEN Len(BestPeriodic(WindowOf(MD'.onset_times,
                                   Last(MD'.onset_times) - WINDOW_S)).aligned)
    ELSE MD.best_periodic_count

\* C31: a click_detected carries the best periodic count of the latest search
\* while the detector is unlocked and len(click_times) once it is locked;
\* from the lock on, the click_count of successive click_detected events goes
\* up by exactly 1; and total_onsets is always the number of onsets the
\* pipeline has processed so far.
C31_ClickCountAndTotalOnsets ==
    /\ [][ (feed'.fed = feed.fed + 1 /\ feed'.status = "running") =>
             \A i \in 1..Len(NewEvents) :
                 NewEvents[i].type = "click_detected" =>
                    /\ NewEvents[i].total_onsets = feed'.fed
                    /\ NewEvents[i].click_count =
                         IF MD'.locked THEN Len(MD'.click_times)
                         ELSE LatestSearchCount ]_vars
    /\ [](\A i \in 1..(Len(ClicksFromLock) - 1) :
             ClicksFromLock[i + 1].click_count = ClicksFromLock[i].click_count + 1)

\* C31 has happened: the first search failed (the count 2 went out with the
\* fourth onset), and after the lock a note was scored and clicks were counted
C31_Witness ==
    /\ \E i \in 1..Len(outbox) :
          /\ outbox[i].type = "click_detected"
          /\ outbox[i].click_count = 2
          /\ outbox[i].total_onsets = MIN_PERIODIC_ONSETS
    /\ MD.locked
    /\ Len(ClicksFromLock) >= 2
    /\ Len(pipeline.note_events) > 0
    /\ Last(outbox).type = "click_detected"
    /\ Last(outbox).click_count = Len(MD.click_times)
    /\ Last(outbox).total_onsets = feed.fed
=============================================================================
